---- MODULE Spec2Model ----
(***************************************************************************)
(* Planest: the offline-first synchronisation engine (local store,         *)
(* mutation outbox, push/pull against the remote row store) and the        *)
(* server-side reminder delivery service with its dispatch-log fence.      *)
(***************************************************************************)
EXTENDS Integers, Sequences, FiniteSets, TLC

(***************************************************************************)
(* Bounds of the model.                                                    *)
(***************************************************************************)
\* local mutating operations performed in one behaviour
MaxMut == 2
\* page reloads in one behaviour
MaxReloads == 1
\* reminder passes of the device in one behaviour
MaxPasses == 3
\* timer periods the device clock advances in one behaviour
MaxDeviceTicks == 4
\* seconds the server clock advances in one behaviour of the window model
MaxSrvSeconds == 240
\* invocations of the delivery service in one behaviour
MaxInv == 2
\* scheduler periods the server clock advances in one behaviour
MaxTicks == 2

\* async task chains of the client that may be in flight at the same time
Slots == {"t1", "t2"}
\* entity ids the local operations work on (one action, one event)
EntIds == {"a1", "e1"}

VARIABLES
  enabled,      \* isSupabaseEnabled && supabase: a remote backend is configured
  online,       \* navigator.onLine
  flaky,        \* remote calls may return an error (network, server)
  rejecting,    \* ids of the mutations the remote store rejects (constraint)
  localDb,      \* Dexie entity tables: table name -> (id -> row)
  remoteDb,     \* remote row store: table name -> (id -> row)
  outbox,       \* db.mutations ordered by id
  nextId,       \* the ++id auto-increment of db.mutations
  clock,        \* nowIso(): strictly increasing timestamps of local writes
  task,         \* the async task chain running in each slot
  reloads,      \* page reloads so far
  sent,         \* ids of mutations for which a remote call was issued
  applied,      \* mutation id -> number of remote calls acknowledged without error
  lastApplied,  \* id of the mutation applied last at the remote store
  callFailed,   \* some remote call has returned an error
  lastEnq,      \* entity id -> the mutation enqueued last for it
  tz,           \* the device's time zone: local time minus UTC, in hours
  sentReminders,  \* localStorage 'planest_sent_reminders': the tokens already fired
  deviceNow,    \* the device's clock (ms), read by the reminder pass
  notifications,  \* token -> local notifications raised for it so far
  passes,       \* reminder passes run so far
  lastPass,     \* how the last reminder pass ended: "none", "completed" or "threw"
  secretSet,    \* CRON_SECRET is configured
  srvNow,       \* the delivery service's clock (ms)
  events,       \* remote events rows with a non-empty reminder list
  subActive,    \* push_subscriptions.is_active by subscription id
  dispatchLog,  \* push_dispatch_log: the set of dispatch keys
  inv,          \* the delivery-service invocations
  attempts,     \* dispatch key -> number of webpush.sendNotification calls
  locks,        \* dispatch key -> invocations whose log insert succeeded
  senders       \* dispatch key -> invocations that called sendNotification

syncVars == <<enabled, online, flaky, rejecting, localDb, remoteDb, outbox, nextId,
              clock, task, reloads, sent, applied, lastApplied, callFailed, lastEnq,
              tz, sentReminders, deviceNow, notifications, passes, lastPass>>

remVars == <<sentReminders, deviceNow, notifications, passes, lastPass>>

dispVars == <<secretSet, srvNow, events, subActive, dispatchLog, inv, attempts, locks,
              senders>>

vars == <<syncVars, dispVars>>

(***************************************************************************)
(* Tables and rows.                                                        *)
(***************************************************************************)
tableNames == <<"categories", "items", "actions", "events", "profiles">>

Tables == {tableNames[i] : i \in 1..Len(tableNames)}

TableOf(id) ==
  CASE id \in {"c1", "c2"} -> "categories"
    [] id \in {"i1", "i2", "i3"} -> "items"
    [] id \in {"a1", "a2", "a3"} -> "actions"
    [] id = "p1" -> "profiles"
    [] OTHER -> "events"

EmptyTable == [i \in {} |-> 0]

\* Table.put / bulkPut of one row: upsert by primary key
Put(tbl, row) ==
  [i \in (DOMAIN tbl) \cup {row.id} |-> IF i = row.id THEN row ELSE tbl[i]]

\* Table.delete: remove by primary key
Del(tbl, id) == [i \in (DOMAIN tbl) \ {id} |-> tbl[i]]

\* field values are opaque tokens; these two stand for null and the empty array
Null == "null"

EmptyArr == "[]"

\* toRemote: the remote column each local field is written to, by table
RemoteName(table) ==
  CASE table = "categories" ->
         [id |-> "id", title |-> "title", owner |-> "owner",
          ownerUserId |-> "owner_user_id", color |-> "color",
          colorName |-> "color_name", createdAt |-> "created_at",
          updatedAt |-> "updated_at"]
    [] table = "items" ->
         [id |-> "id", categoryId |-> "category_id", title |-> "title", note |-> "note",
          mentionUserIds |-> "mention_user_ids", createdAt |-> "created_at",
          updatedAt |-> "updated_at"]
    [] table = "actions" ->
         [id |-> "id", itemId |-> "item_id", title |-> "title",
          percentComplete |-> "percent_complete", dueDate |-> "due_date",
          reminders |-> "reminders", mentionUserIds |-> "mention_user_ids",
          createdAt |-> "created_at", updatedAt |-> "updated_at"]
    [] table = "profiles" ->
         [id |-> "id", email |-> "email", displayName |-> "display_name",
          createdAt |-> "created_at", updatedAt |-> "updated_at"]
    [] OTHER ->
         [id |-> "id", categoryId |-> "category_id", title |-> "title",
          startsAt |-> "starts_at", endsAt |-> "ends_at",
          recurrenceRule |-> "recurrence_rule", exceptionDates |-> "exception_dates",
          reminders |-> "reminders", mentionUserIds |-> "mention_user_ids",
          color |-> "color", colorName |-> "color_name",
          attachmentName |-> "attachment_name",
          attachmentDataUrl |-> "attachment_data_url", createdAt |-> "created_at",
          updatedAt |-> "updated_at"]

\* toLocal: the local field each remote column is read into, by table
LocalName(table) ==
  CASE table = "categories" ->
         [id |-> "id", title |-> "title", owner |-> "owner",
          owner_user_id |-> "ownerUserId", color |-> "color",
          color_name |-> "colorName", created_at |-> "createdAt",
          updated_at |-> "updatedAt"]
    [] table = "items" ->
         [id |-> "id", category_id |-> "categoryId", title |-> "title", note |-> "note",
          mention_user_ids |-> "mentionUserIds", created_at |-> "createdAt",
          updated_at |-> "updatedAt"]
    [] table = "actions" ->
         [id |-> "id", item_id |-> "itemId", title |-> "title",
          percent_complete |-> "percentComplete", due_date |-> "dueDate",
          reminders |-> "reminders", mention_user_ids |-> "mentionUserIds",
          created_at |-> "createdAt", updated_at |-> "updatedAt"]
    [] table = "profiles" ->
         [id |-> "id", email |-> "email", display_name |-> "displayName",
          created_at |-> "createdAt", updated_at |-> "updatedAt"]
    [] OTHER ->
         [id |-> "id", category_id |-> "categoryId", title |-> "title",
          starts_at |-> "startsAt", ends_at |-> "endsAt",
          recurrence_rule |-> "recurrenceRule", exception_dates |-> "exceptionDates",
          reminders |-> "reminders", mention_user_ids |-> "mentionUserIds",
          color |-> "color", color_name |-> "colorName",
          attachment_name |-> "attachmentName",
          attachment_data_url |-> "attachmentDataUrl", created_at |-> "createdAt",
          updated_at |-> "updatedAt"]

\* toLocal: the columns read with a default (column ?? default), by table
LocalDefault(table) ==
  CASE table = "categories" -> [color_name |-> Null]
    [] table = "items" -> [mention_user_ids |-> EmptyArr]
    [] table = "actions" -> [mention_user_ids |-> EmptyArr]
    [] table = "profiles" -> [c \in {} |-> Null]
    [] OTHER -> [exception_dates |-> EmptyArr, mention_user_ids |-> EmptyArr,
                 color_name |-> Null]

\* local payload -> remote row.  A row of the model holds the fields the model
\* tracks; a field the payload lacks (the id-only stub of a delete) is
\* undefined and not serialised
toRemote(table, payload) ==
  LET rn == RemoteName(table)
      fs == (DOMAIN payload) \cap (DOMAIN rn)
  IN  [c \in {rn[f] : f \in fs} |-> payload[CHOOSE f \in fs : rn[f] = c]]

\* mutant: an absent colour name or mention list is read as the empty text
toLocalBlank(table, row) ==
  LET ln == LocalName(table)
      cs == (DOMAIN row) \cap (DOMAIN ln)
      dflt == LocalDefault(table)
      Value(c) == IF c \in DOMAIN dflt /\ row[c] \in {Null, EmptyArr} THEN "" ELSE row[c]
  IN  [f \in {ln[c] : c \in cs} |-> Value(CHOOSE c \in cs : ln[c] = f)]

\* remote row -> local row, with the defaults of the columns read as col ?? dflt
toLocal(table, row) ==
  LET ln == LocalName(table)
      cs == (DOMAIN row) \cap (DOMAIN ln)
      dflt == LocalDefault(table)
      Value(c) == IF c \in DOMAIN dflt /\ row[c] = Null THEN dflt[c] ELSE row[c]
  IN  [f \in {ln[c] : c \in cs} |-> Value(CHOOSE c \in cs : ln[c] = f)]

\* supabase.from(table).upsert(row) / .delete().eq('id', id) at the remote store
ApplyRemote(db, m) ==
  [db EXCEPT ![m.table] =
     IF m.op = "upsert" THEN Put(@, toRemote(m.table, m.payload))
                        ELSE Del(@, toRemote(m.table, m.payload).id)]

\* db.mutations.delete(id)
RemoveMutation(q, id) == SelectSeq(q, LAMBDA m : m.id # id)

\* the outcomes a remote call can have: TRUE is a return without error
CallOutcomes == IF ~online THEN {FALSE} ELSE IF flaky THEN {TRUE, FALSE} ELSE {TRUE}

\* a JavaScript number: an integer value or NaN
Num(v) == [nan |-> FALSE, v |-> v]

NaN == [nan |-> TRUE, v |-> 0]

\* Math.min, Math.max: NaN when an argument is NaN
MathMin(a, b) == IF a.nan \/ b.nan THEN NaN ELSE IF a.v <= b.v THEN a ELSE b

MathMax(a, b) == IF a.nan \/ b.nan THEN NaN ELSE IF a.v >= b.v THEN a ELSE b

\* action.percentComplete >= 100: false when the number is NaN
AtLeast(a, b) == ~a.nan /\ ~b.nan /\ a.v >= b.v

\* a payload the remote table refuses: NaN is serialised as null, and
\* percent_complete is declared not null
Refused(m) ==
  /\ m.op = "upsert"
  /\ "percentComplete" \in DOMAIN m.payload
  /\ m.payload.percentComplete.nan

\* the outcomes of the remote upsert / delete of mutation m
PushOutcomes(m) == IF m.id \in rejecting \/ Refused(m) THEN {FALSE} ELSE CallOutcomes

Ids(q) == {q[i].id : i \in 1..Len(q)}

IdleTask ==
  [pc |-> "idle", queue |-> <<>>, idx |-> 0, data |-> {}, pay |-> [id |-> "none"],
   op |-> "none", stamp |-> 0, mine |-> 0, pushErr |-> FALSE, failedAt |-> 0,
   pulled |-> {}, todo |-> <<>>]

\* ids the outbox hands out in one behaviour
MutIds == 1..(MaxMut + 1)

NoMutation == [op |-> "none", payload |-> [id |-> "none"]]

(***************************************************************************)
(* The delivery service at rest (its actions follow further down).         *)
(***************************************************************************)
Invs == 1..MaxInv

SubOrder == <<"s1", "s2">>

Subs == {SubOrder[i] : i \in 1..Len(SubOrder)}

UserOf(sub) == IF sub = "s1" THEN "u1" ELSE "u2"

\* reminder strings: iso is the stored text, at its instant in ms, valid is
\* whether new Date(iso) is a date
R1 == [iso |-> "r1", valid |-> TRUE, at |-> 60 * 1000]
R2 == [iso |-> "r2", valid |-> TRUE, at |-> 120 * 1000]
RBad == [iso |-> "bad", valid |-> FALSE, at |-> 0]

EventConfigs ==
  { <<[id |-> "ev1", reminders |-> rs, mention_user_ids |-> ms]>> :
      rs \in {<<R1>>, <<R1, R1>>, <<RBad, R1>>, <<R1, R2>>},
      ms \in {<<>>, <<"u1">>, <<"u1", "u1">>} }

Keys == {<<"ev1", r.iso, sub>> : r \in {R1, R2, RBad}, sub \in Subs}

IdleInv ==
  [pc |-> "idle", now |-> 0, subs |-> <<>>, work |-> <<>>, pos |-> 0, status |-> 0,
   sent |-> 0, skipped |-> 0, failed |-> 0, statusCode |-> 0, received |-> FALSE]

DispInit ==
  /\ secretSet \in BOOLEAN
  /\ srvNow = 0
  /\ events \in EventConfigs
  /\ subActive \in [Subs -> BOOLEAN]
  /\ dispatchLog = {}
  /\ inv = [i \in Invs |-> IdleInv]
  /\ attempts = [k \in Keys |-> 0]
  /\ locks = [k \in Keys |-> {}]
  /\ senders = [k \in Keys |-> {}]

\* the delivery service when the client is what is looked at
DispIdle ==
  /\ secretSet = TRUE
  /\ srvNow = 0
  /\ events = <<>>
  /\ subActive = [x \in Subs |-> TRUE]
  /\ dispatchLog = {}
  /\ inv = [i \in Invs |-> IdleInv]
  /\ attempts = [k \in Keys |-> 0]
  /\ locks = [k \in Keys |-> {}]
  /\ senders = [k \in Keys |-> {}]

\* the reminder tokens: `${kind}:${id}:${reminderDate.toISOString()}`; the text
\* toISOString gives is a function of the instant
Token(kind, id, reminder) == <<kind, id, reminder.at>>

Tokens == {Token(kind, id, r) : kind \in {"action", "event"}, id \in {"a1", "e1"},
                                r \in {R1, R2}}

\* the reminder pass when something else is what is looked at: nothing stored
\* under 'planest_sent_reminders', no notification raised, no pass run
RemIdle ==
  /\ sentReminders = {}
  /\ deviceNow = 0
  /\ notifications = [k \in Tokens |-> 0]
  /\ passes = 0
  /\ lastPass = "none"

(***************************************************************************)
(* Initial state of the client: empty stores, nothing in flight.           *)
(***************************************************************************)
SyncInit ==
  /\ enabled \in BOOLEAN
  /\ online \in BOOLEAN
  /\ flaky = TRUE
  /\ rejecting = {}
  /\ localDb = [t \in Tables |-> EmptyTable]
  /\ remoteDb = [t \in Tables |-> EmptyTable]
  /\ outbox = <<>>
  /\ nextId = 1
  /\ clock = 0
  /\ task = [s \in Slots |-> IdleTask]
  /\ reloads = 0
  /\ sent = {}
  /\ applied = [k \in MutIds |-> 0]
  /\ lastApplied = 0
  /\ callFailed = FALSE
  /\ lastEnq = [e \in EntIds |-> NoMutation]
  /\ tz = 0
  /\ RemIdle

envVars == <<enabled, online, flaky, rejecting, tz, remVars>>

histVars == <<sent, applied, lastApplied, callFailed>>

\* ids of the mutations the remote store acknowledged without error at least once
accepted == {k \in DOMAIN applied : applied[k] > 0}

(***************************************************************************)
(* Local mutating operations (usePlanestData).  Each handler awaits the    *)
(* local table write, then the outbox append, then starts safeSync without *)
(* awaiting it.                                                            *)
(***************************************************************************)
\* addX / updateX / saveEvent: db.<table>.put(row)
OpPut(s, e) ==
  /\ task[s].pc = "idle"
  /\ clock < MaxMut
  /\ clock' = clock + 1
  /\ LET row == [id |-> e, updatedAt |-> clock + 1] IN
       /\ localDb' = [localDb EXCEPT ![TableOf(e)] = Put(@, row)]
       /\ task' = [task EXCEPT ![s] = [IdleTask EXCEPT !.pc = "enqueue",
                                                       !.op = "upsert",
                                                       !.pay = row,
                                                       !.stamp = clock + 1]]
  /\ UNCHANGED <<envVars, remoteDb, outbox, nextId, reloads, histVars, lastEnq, dispVars>>

\* deleteAction / deleteEventSeries: no-op when the row does not exist,
\* else db.<table>.delete(id)
OpDelete(s, e) ==
  /\ task[s].pc = "idle"
  /\ clock < MaxMut
  /\ e \in DOMAIN localDb[TableOf(e)]
  /\ clock' = clock + 1
  /\ localDb' = [localDb EXCEPT ![TableOf(e)] = Del(@, e)]
  /\ task' = [task EXCEPT ![s] = [IdleTask EXCEPT !.pc = "enqueue",
                                                  !.op = "delete",
                                                  !.pay = [id |-> e],
                                                  !.stamp = clock + 1]]
  /\ UNCHANGED <<envVars, remoteDb, outbox, nextId, reloads, histVars, lastEnq, dispVars>>

\* mutant: safeSync without its guard
SafeSyncStartUnguarded == [IdleTask EXCEPT !.pc = "snapshot"]

\* addAction: a new action with percentComplete 0
AddAction(s) ==
  /\ task[s].pc = "idle"
  /\ clock < MaxMut
  /\ "a1" \notin DOMAIN localDb["actions"]
  /\ clock' = clock + 1
  /\ LET action == [id |-> "a1", percentComplete |-> Num(0), updatedAt |-> clock + 1] IN
       /\ localDb' = [localDb EXCEPT !["actions"] = Put(@, action)]
       /\ task' = [task EXCEPT ![s] = [IdleTask EXCEPT !.pc = "enqueue",
                                                       !.op = "upsert",
                                                       !.pay = action,
                                                       !.stamp = clock + 1]]
  /\ UNCHANGED <<envVars, remoteDb, outbox, nextId, reloads, histVars, lastEnq, dispVars>>

\* the values the callers and tests hand to updateActionProgress
ProgressInputs == {Num(0 - 20), Num(0), Num(40), Num(100), Num(130), NaN}

\* updateActionProgress: no-op when the action does not exist, else the action
\* with percentComplete = Math.max(0, Math.min(100, percentComplete))
updateActionProgress(s, actionId, percentComplete) ==
  /\ task[s].pc = "idle"
  /\ clock < MaxMut
  /\ actionId \in DOMAIN localDb["actions"]
  /\ clock' = clock + 1
  /\ LET existing == localDb["actions"][actionId]
         updated == [existing EXCEPT
                       !.percentComplete = MathMax(Num(0), MathMin(Num(100), percentComplete)),
                       !.updatedAt = clock + 1] IN
       /\ localDb' = [localDb EXCEPT !["actions"] = Put(@, updated)]
       /\ task' = [task EXCEPT ![s] = [IdleTask EXCEPT !.pc = "enqueue",
                                                       !.op = "upsert",
                                                       !.pay = updated,
                                                       !.stamp = clock + 1]]
  /\ UNCHANGED <<envVars, remoteDb, outbox, nextId, reloads, histVars, lastEnq, dispVars>>

\* updateActionProgress on the one action of the progress model
UpdateActionProgress(s, percentComplete) == updateActionProgress(s, "a1", percentComplete)

\* the start of safeSync: returns at once when no backend is configured or the
\* device is offline, else setIsSyncing(true) and syncAll()
SafeSyncStart == IF enabled /\ online THEN [IdleTask EXCEPT !.pc = "snapshot"] ELSE IdleTask

\* mutant: the handler starts safeSync before it awaits enqueueMutation, the run
\* reads the outbox without the handler's mutation
OutboxSeenEarly(t, q) == SelectSeq(q, LAMBDA m : m.id # t.mine)

\* the outbox as the run of task t reads it: void safeSync() comes after the
\* awaited enqueueMutation, the run reads the outbox as it is
OutboxSeen(t, q) == q

\* a run started by a handler keeps, up to its read of the outbox, the id of the
\* mutation the handler enqueued
TriggeredBy(t, id) == IF t.pc = "snapshot" THEN [t EXCEPT !.mine = id] ELSE t

\* enqueueMutation: db.mutations.add(mutation); then refresh() and void safeSync().
\* Handlers that wrote the same table reach their db.mutations.add in the order
\* of their table writes (the local store runs the writes of one table in the
\* order they were issued).
enqueueMutation(s) ==
  /\ task[s].pc = "enqueue"
  /\ \A o \in Slots \ {s} :
       (task[o].pc = "enqueue" /\ TableOf(task[o].pay.id) = TableOf(task[s].pay.id))
         => task[s].stamp < task[o].stamp
  /\ LET m == [id |-> nextId, table |-> TableOf(task[s].pay.id),
               op |-> task[s].op, payload |-> task[s].pay] IN
       /\ outbox' = Append(outbox, m)
       /\ lastEnq' = [lastEnq EXCEPT ![m.payload.id] = [op |-> m.op, payload |-> m.payload]]
  /\ nextId' = nextId + 1
  /\ task' = [task EXCEPT ![s] = TriggeredBy(SafeSyncStart, nextId)]
  /\ UNCHANGED <<envVars, localDb, remoteDb, clock, reloads, histVars, dispVars>>

(***************************************************************************)
(* safeSync / syncAll / pushMutations / pullSnapshot.                      *)
(***************************************************************************)
\* safeSync called by the online handler, the session handlers or the manual
\* sync button
safeSync(s) ==
  /\ task[s].pc = "idle"
  /\ enabled /\ online
  /\ task' = [task EXCEPT ![s] = SafeSyncStart]
  /\ UNCHANGED <<envVars, localDb, remoteDb, outbox, nextId, clock, reloads, histVars,
                 lastEnq, dispVars>>

\* pullSnapshot at table number i, or the end of syncAll after the last table
PullFrom(t, i) ==
  IF i > Len(tableNames)
    THEN [t EXCEPT !.pc = "refresh", !.queue = <<>>, !.idx = 0, !.data = {}]
    ELSE [t EXCEPT !.pc = "pull", !.queue = <<>>, !.idx = i, !.data = {}]

\* mutant: syncAll goes to pullSnapshot without draining the outbox
PushFromSkipped(t, i) == PullFrom(t, 1)

\* pushMutations at queue entry number i, or its return after the last entry
PushFrom(t, i) ==
  IF i > Len(t.queue) THEN PullFrom(t, 1)
                      ELSE [t EXCEPT !.pc = "push", !.idx = i]

\* the rows of q sorted on their id, upwards or downwards
RECURSIVE SortOnId(_, _)
SortOnId(q, up) ==
  IF q = <<>> THEN <<>>
  ELSE LET i == CHOOSE i \in 1..Len(q) :
                  \A j \in 1..Len(q) : IF up THEN q[i].id <= q[j].id
                                                ELSE q[i].id >= q[j].id
       IN <<q[i]>> \o SortOnId(SubSeq(q, 1, i - 1) \o SubSeq(q, i + 1, Len(q)), up)

\* mutant: the outbox read newest-first
OrderByIdDesc(q) == SortOnId(q, FALSE)

\* db.mutations.orderBy('id').toArray()
OrderById(q) == SortOnId(q, TRUE)

\* pushMutations: queue = await db.mutations.orderBy('id').toArray()
Snapshot(s) ==
  /\ task[s].pc = "snapshot"
  /\ task' = [task EXCEPT ![s] =
                PushFrom([@ EXCEPT !.queue = OrderById(OutboxSeen(task[s], outbox)),
                                   !.mine = 0], 1)]
  /\ UNCHANGED <<envVars, localDb, remoteDb, outbox, nextId, clock, reloads, histVars,
                 lastEnq, dispVars>>

\* mutant: the error is not looked at, the outbox entry is deleted all the same
AfterPushErrorIgnored(t) == [t EXCEPT !.pc = "push_del"]

\* mutant: continue instead of break, the loop goes on with the next entry
AfterPushErrorContinue(t) ==
  PushFrom([t EXCEPT !.pushErr = TRUE, !.failedAt = t.queue[t.idx].id], t.idx + 1)

\* mutant: the error is thrown, syncAll ends without pullSnapshot
AfterPushErrorThrows(t) ==
  [t EXCEPT !.pc = "refresh", !.pushErr = TRUE, !.failedAt = t.queue[t.idx].id,
            !.queue = <<>>, !.idx = 0]

\* pushMutations, if (error) break: the loop is left and pushMutations returns
AfterPushError(t) ==
  PullFrom([t EXCEPT !.pushErr = TRUE, !.failedAt = t.queue[t.idx].id], 1)

\* pushMutations after a call without error: the outbox entry is deleted next
AfterPushOk(t) == [t EXCEPT !.pc = "push_del"]

\* pushMutations: the remote upsert / delete of queue[idx]
PushSend(s) ==
  /\ task[s].pc = "push"
  /\ LET m == task[s].queue[task[s].idx] IN
       \E ok \in PushOutcomes(m) :
         /\ sent' = sent \cup {m.id}
         /\ IF ok
              THEN /\ remoteDb' = ApplyRemote(remoteDb, m)
                   /\ applied' = [applied EXCEPT ![m.id] = @ + 1]
                   /\ lastApplied' = m.id
                   /\ task' = [task EXCEPT ![s] = AfterPushOk(@)]
                   /\ UNCHANGED callFailed
              ELSE /\ callFailed' = TRUE
                   /\ task' = [task EXCEPT ![s] = AfterPushError(@)]
                   /\ UNCHANGED <<remoteDb, applied, lastApplied>>
  /\ UNCHANGED <<envVars, localDb, outbox, nextId, clock, reloads, lastEnq, dispVars>>

\* pushMutations: await db.mutations.delete(mutation.id), then the next entry
PushDelete(s) ==
  /\ task[s].pc = "push_del"
  /\ outbox' = RemoveMutation(outbox, task[s].queue[task[s].idx].id)
  /\ task' = [task EXCEPT ![s] = PushFrom(@, @.idx + 1)]
  /\ UNCHANGED <<envVars, localDb, remoteDb, nextId, clock, reloads, histVars, lastEnq,
                 dispVars>>

\* mutant: the table is cleared before the fetched rows are stored
BulkPutReplace(tbl, rows) ==
  [i \in {r.id : r \in rows} |-> CHOOSE r \in rows : r.id = i]

\* mutant: a fetched row is stored only when the local row is not newer
BulkPutKeepNewer(tbl, rows) ==
  [i \in (DOMAIN tbl) \cup {r.id : r \in rows} |->
     IF /\ i \in {r.id : r \in rows}
        /\ (i \in DOMAIN tbl =>
              tbl[i].updatedAt <= (CHOOSE r \in rows : r.id = i).updatedAt)
       THEN CHOOSE r \in rows : r.id = i
       ELSE tbl[i]]

RECURSIVE BulkPut(_, _)
\* Table.bulkPut(rows)
BulkPut(tbl, rows) ==
  IF rows = {} THEN tbl
  ELSE LET r == CHOOSE x \in rows : TRUE IN BulkPut(Put(tbl, r), rows \ {r})

\* mutant: pullSnapshot returns at the first table whose fetch fails
AfterPullErrorReturn(t) == PullFrom(t, Len(tableNames) + 1)

\* pullSnapshot, if (error || !data) continue: the next table is fetched
AfterPullError(t) == PullFrom(t, t.idx + 1)

\* pullSnapshot: supabase.from(table).select('*'); on error continue with the
\* next table (the bulkPut of an empty result is done within this step)
PullSelect(s) ==
  /\ task[s].pc = "pull"
  /\ \E ok \in CallOutcomes :
       LET t == tableNames[task[s].idx]
           seen == [task[s] EXCEPT !.pulled = @ \cup {t}]
           rows == {remoteDb[t][i] : i \in DOMAIN remoteDb[t]} IN
         /\ task' = [task EXCEPT ![s] =
              IF ~ok THEN AfterPullError(seen)
              ELSE IF rows # {}
                THEN [seen EXCEPT !.pc = "pull_put", !.data = rows]
                ELSE PullFrom(seen, seen.idx + 1)]
         /\ localDb' = IF ok /\ rows = {}
                          THEN [localDb EXCEPT ![t] = BulkPut(@, {})]
                          ELSE localDb
         /\ callFailed' = (callFailed \/ ~ok)
  /\ UNCHANGED <<envVars, remoteDb, outbox, nextId, clock, reloads, sent,
                 applied, lastApplied, lastEnq, dispVars>>

\* pullSnapshot: db.<table>.bulkPut(data.map(toLocal)), then the next table
PullPut(s) ==
  /\ task[s].pc = "pull_put"
  /\ LET t == tableNames[task[s].idx] IN
       localDb' = [localDb EXCEPT ![t] =
                     BulkPut(@, {toLocal(t, r) : r \in task[s].data})]
  /\ task' = [task EXCEPT ![s] = PullFrom(@, @.idx + 1)]
  /\ UNCHANGED <<envVars, remoteDb, outbox, nextId, clock, reloads, histVars, lastEnq,
                 dispVars>>

\* safeSync after syncAll returned: setLastSyncAt, refresh, setIsSyncing(false)
SyncDone(s) ==
  /\ task[s].pc = "refresh"
  /\ task' = [task EXCEPT ![s] = IdleTask]
  /\ UNCHANGED <<envVars, localDb, remoteDb, outbox, nextId, clock, reloads, histVars,
                 lastEnq, dispVars>>

(***************************************************************************)
(* Environment of the client.                                              *)
(***************************************************************************)
\* page / process reload: every in-flight task is abandoned, IndexedDB stays
Reload ==
  /\ reloads < MaxReloads
  /\ \E s \in Slots : task[s].pc # "idle"
  /\ reloads' = reloads + 1
  /\ task' = [s \in Slots |-> IdleTask]
  /\ UNCHANGED <<envVars, localDb, remoteDb, outbox, nextId, clock, histVars, lastEnq,
                 dispVars>>

\* connectivity is lost
GoOffline ==
  /\ online
  /\ online' = FALSE
  /\ UNCHANGED <<enabled, flaky, rejecting, localDb, remoteDb, outbox, nextId, clock,
                 task, reloads, histVars, lastEnq, tz, remVars, dispVars>>

\* connectivity returns
GoOnline ==
  /\ ~online
  /\ online' = TRUE
  /\ UNCHANGED <<enabled, flaky, rejecting, localDb, remoteDb, outbox, nextId, clock,
                 task, reloads, histVars, lastEnq, tz, remVars, dispVars>>

\* the remote store and the network stop failing
Heal ==
  /\ flaky
  /\ flaky' = FALSE
  /\ UNCHANGED <<enabled, online, rejecting, localDb, remoteDb, outbox, nextId, clock,
                 task, reloads, histVars, lastEnq, tz, remVars, dispVars>>

(***************************************************************************)
(* The reminder delivery service (supabase/functions/send-reminders).      *)
(***************************************************************************)
\* const lower = new Date(now.getTime() - 90_000)
PastMs == 90000
\* const upper = new Date(now.getTime() + 30_000)
FutureMs == 30000
\* the scheduler's period: about one minute
TickMs == 60 * 1000

\* mutant: a reminder exactly at the lower end of the window is left out
InWindowStrict(r, now) == r.valid /\ r.at > now - PastMs /\ ~(r.at > now + FutureMs)

\* a reminder is processed unless it is no date or lies outside [lower, upper]
InWindow(r, now) == r.valid /\ ~(r.at < now - PastMs) /\ ~(r.at > now + FutureMs)

\* .eq('is_active', true): the active subscriptions, in query order
ActiveSubs == SelectSeq(SubOrder, LAMBDA x : subActive[x])

\* subscriptionsByUser.get(id) ?? []
ByUser(subs, u) == SelectSeq(subs, LAMBDA x : UserOf(x) = u)

RECURSIVE FlatMapSubs(_, _)
\* event.mention_user_ids.flatMap((id) => subscriptionsByUser.get(id) ?? [])
FlatMapSubs(ms, subs) ==
  IF ms = <<>> THEN <<>> ELSE ByUser(subs, Head(ms)) \o FlatMapSubs(Tail(ms), subs)

\* mutant: the mention list is not looked at
RecipientsEveryone(ev, subs) == subs

\* recipients: the mentioned users' subscriptions, or all when nobody is mentioned
Recipients(ev, subs) ==
  IF Len(ev.mention_user_ids) > 0 THEN FlatMapSubs(ev.mention_user_ids, subs) ELSE subs

RECURSIVE Unique(_)
\* uniqueRecipients: a Map keyed by subscription id keeps one entry per id
Unique(q) ==
  IF q = <<>> THEN <<>>
  ELSE <<Head(q)>> \o Unique(SelectSeq(Tail(q), LAMBDA x : x # Head(q)))

\* the triples of one reminder of one event, in loop order
Triples(ev, r, subs) ==
  LET u == Unique(Recipients(ev, subs)) IN
    [i \in 1..Len(u) |-> [ev |-> ev.id, iso |-> r.iso, sub |-> u[i]]]

RECURSIVE ReminderWork(_, _, _, _)
\* for (const reminderIso of event.reminders ?? [])
ReminderWork(ev, rs, now, subs) ==
  IF rs = <<>> THEN <<>>
  ELSE (IF InWindow(Head(rs), now) THEN Triples(ev, Head(rs), subs) ELSE <<>>)
         \o ReminderWork(ev, Tail(rs), now, subs)

RECURSIVE Work(_, _, _)
\* for (const event of events)
Work(evs, now, subs) ==
  IF evs = <<>> THEN <<>>
  ELSE ReminderWork(Head(evs), Head(evs).reminders, now, subs) \o Work(Tail(evs), now, subs)

\* dispatchKey = `${event.id}:${reminderIso}:${subscription.id}`
DispatchKey(w) == <<w.ev, w.iso, w.sub>>

\* the next triple of the loops, or the final response
NextTriple(v) ==
  IF v.pos + 1 > Len(v.work) THEN [v EXCEPT !.pc = "done", !.status = 200]
                             ELSE [v EXCEPT !.pc = "insert", !.pos = v.pos + 1]

\* mutant: the header is compared whether or not CRON_SECRET is set
Unauthorized(hdrOk) == ~hdrOk

\* if (cronSecret) { if (received !== cronSecret) return 401 }
Refuses(hdrOk) == secretSet /\ ~hdrOk

\* serve: the request arrives; x-cron-secret is checked when CRON_SECRET is set.
\* hdrOk: the header carries the configured secret (no header does when none
\* is configured); received keeps it
Serve(i) ==
  /\ inv[i].pc = "idle"
  /\ \E hdrOk \in (IF secretSet THEN BOOLEAN ELSE {FALSE}) :
       inv' = [inv EXCEPT ![i] =
         IF Refuses(hdrOk) THEN [@ EXCEPT !.pc = "done", !.status = 401,
                                          !.received = hdrOk]
                           ELSE [@ EXCEPT !.pc = "load", !.now = srvNow,
                                          !.received = hdrOk]]
  /\ UNCHANGED <<secretSet, srvNow, events, subActive, dispatchLog, attempts, locks,
                 senders, syncVars>>

\* serve: the events and the active subscriptions are read (subs is the
\* handler's const subscriptions)
Load(i) ==
  /\ inv[i].pc = "load"
  /\ \E ok \in BOOLEAN :
       inv' = [inv EXCEPT ![i] =
         IF ok THEN NextTriple([@ EXCEPT !.subs = ActiveSubs,
                                         !.work = Work(events, inv[i].now, ActiveSubs)])
               ELSE [@ EXCEPT !.pc = "done", !.status = 500]]
  /\ UNCHANGED <<secretSet, srvNow, events, subActive, dispatchLog, attempts, locks,
                 senders, syncVars>>

\* mutant: the log row is upserted, a duplicate key is no error
InsertOutcomesUpsert(key) == {TRUE, FALSE}

\* supabase.from('push_dispatch_log').insert(...): dispatch_key is the primary
\* key, a duplicate is an error; the call can also fail for other reasons
InsertOutcomes(key) == IF key \in dispatchLog THEN {FALSE} ELSE {TRUE, FALSE}

\* mutant: the error of the insert is ignored, the push is sent
AfterLockErrorIgnored(v) == [v EXCEPT !.pc = "send"]

\* if (lockError) { skipped += 1; continue; }
AfterLockError(v) == NextTriple([v EXCEPT !.skipped = @ + 1])

\* the insert into push_dispatch_log; on error skipped += 1 and continue
Insert(i) ==
  /\ inv[i].pc = "insert"
  /\ LET key == DispatchKey(inv[i].work[inv[i].pos]) IN
       \E ok \in InsertOutcomes(key) :
         IF ok
           THEN /\ dispatchLog' = dispatchLog \cup {key}
                /\ locks' = [locks EXCEPT ![key] = @ \cup {i}]
                /\ inv' = [inv EXCEPT ![i].pc = "send"]
           ELSE /\ inv' = [inv EXCEPT ![i] = AfterLockError(@)]
                /\ UNCHANGED <<dispatchLog, locks>>
  /\ UNCHANGED <<secretSet, srvNow, events, subActive, attempts, senders, syncVars>>

\* what webpush.sendNotification ends with: 0 when it resolves, else the
\* statusCode of the error it throws
SendOutcomes == {0, 404, 410, 500}

\* mutant: every failed send counts as an endpoint that is gone
GoneOnAnyError(statusCode) == statusCode # 0

\* statusCode === 404 || statusCode === 410
Gone(statusCode) == statusCode = 404 \/ statusCode = 410

\* webpush.sendNotification: sent += 1, or failed += 1 and, on 404 / 410, the
\* subscription is to be marked inactive; statusCode keeps what the last send
\* of the invocation ended with
Send(i) ==
  /\ inv[i].pc = "send"
  /\ LET key == DispatchKey(inv[i].work[inv[i].pos]) IN
       /\ attempts' = [attempts EXCEPT ![key] = @ + 1]
       /\ senders' = [senders EXCEPT ![key] = @ \cup {i}]
  /\ \E res \in SendOutcomes :
       inv' = [inv EXCEPT ![i] =
         IF res = 0 THEN NextTriple([@ EXCEPT !.sent = @ + 1, !.statusCode = res])
         ELSE IF Gone(res) THEN [@ EXCEPT !.failed = @ + 1, !.statusCode = res,
                                          !.pc = "deactivate"]
         ELSE NextTriple([@ EXCEPT !.failed = @ + 1, !.statusCode = res])]
  /\ UNCHANGED <<secretSet, srvNow, events, subActive, dispatchLog, locks, syncVars>>

\* push_subscriptions.update({ is_active: false }).eq('id', subscription.id)
Deactivate(i) ==
  /\ inv[i].pc = "deactivate"
  /\ subActive' = [subActive EXCEPT ![inv[i].work[inv[i].pos].sub] = FALSE]
  /\ inv' = [inv EXCEPT ![i] = NextTriple(@)]
  /\ UNCHANGED <<secretSet, srvNow, events, dispatchLog, attempts, locks, senders,
                 syncVars>>

\* time passes on the server
Tick ==
  /\ srvNow < MaxTicks * TickMs
  /\ srvNow' = srvNow + TickMs
  /\ UNCHANGED <<secretSet, events, subActive, dispatchLog, inv, attempts, locks,
                 senders, syncVars>>

(***************************************************************************)
(* Specifications.                                                         *)
(***************************************************************************)
Next ==
  \/ \E s \in Slots, e \in EntIds : OpPut(s, e)
  \/ \E s \in Slots, e \in EntIds : OpDelete(s, e)
  \/ \E s \in Slots : enqueueMutation(s)
  \/ \E s \in Slots : safeSync(s)
  \/ \E s \in Slots : Snapshot(s)
  \/ \E s \in Slots : PushSend(s)
  \/ \E s \in Slots : PushDelete(s)
  \/ \E s \in Slots : PullSelect(s)
  \/ \E s \in Slots : PullPut(s)
  \/ \E s \in Slots : SyncDone(s)
  \/ Reload
  \/ GoOffline
  \/ GoOnline

Init == SyncInit /\ DispIdle

\* the client: local operations, overlapping sync runs, reloads, connectivity
Spec == Init /\ [][Next]_vars

\* the client with nothing in flight and nothing stored
SyncIdle == SyncInit /\ enabled /\ online

DispSpecInit == DispInit /\ SyncIdle

DispNext ==
  \/ \E i \in Invs : Serve(i)
  \/ \E i \in Invs : Load(i)
  \/ \E i \in Invs : Insert(i)
  \/ \E i \in Invs : Send(i)
  \/ \E i \in Invs : Deactivate(i)
  \/ Tick

\* the delivery service: overlapping and successive invocations
DispSpec == DispSpecInit /\ [][DispNext]_vars

\* a reminder text that is a date, and its instant (ms)
Timed(t) == [iso |-> ToString(t), valid |-> TRUE, at |-> t]

\* reminder instants at and just beyond the ends of the windows of invocations
\* at 0 s and 120 s
ReminderTimes == {0 - 90001, 0 - 90000, 30000, 30001, 150000, 150001}

\* the time between two moments at which the scheduler may call the function
Gaps == {30 * 1000, 90 * 1000, 120 * 1000, 150 * 1000}

WindowKeys == {<<"ev1", Timed(t).iso, sub>> : t \in ReminderTimes, sub \in Subs}

\* one event with one reminder, nobody mentioned, every subscription active
WindowInit ==
  /\ secretSet = FALSE
  /\ srvNow = 0
  /\ events \in {<<[id |-> "ev1", reminders |-> <<Timed(t)>>, mention_user_ids |-> <<>>]>> :
                   t \in ReminderTimes}
  /\ subActive = [x \in Subs |-> TRUE]
  /\ dispatchLog = {}
  /\ inv = [i \in Invs |-> IdleInv]
  /\ attempts = [k \in WindowKeys |-> 0]
  /\ locks = [k \in WindowKeys |-> {}]
  /\ senders = [k \in WindowKeys |-> {}]
  /\ SyncIdle

\* time passes on the server between two calls of the scheduler
Elapse ==
  /\ \E gap \in Gaps :
       /\ srvNow + gap <= MaxSrvSeconds * 1000
       /\ srvNow' = srvNow + gap
  /\ UNCHANGED <<secretSet, events, subActive, dispatchLog, inv, attempts, locks,
                 senders, syncVars>>

WindowNext ==
  \/ \E i \in Invs : Serve(i)
  \/ \E i \in Invs : Load(i)
  \/ \E i \in Invs : Insert(i)
  \/ \E i \in Invs : Send(i)
  \/ \E i \in Invs : Deactivate(i)
  \/ Elapse

\* invocations at times the scheduler chooses, a reminder at a window's end
WindowSpec == WindowInit /\ [][WindowNext]_vars

\* the outbox after addAction(a1), saveEvent(e1), deleteAction(a1) made offline:
\* [upsert A, upsert B, delete A], and a remote store that rejects upsert B
ScenarioInit ==
  /\ enabled = TRUE
  /\ online \in BOOLEAN
  /\ flaky = FALSE
  /\ rejecting = {2}
  /\ localDb = [t \in Tables |->
                  IF t = "events" THEN Put(EmptyTable, [id |-> "e1", updatedAt |-> 2])
                                  ELSE EmptyTable]
  /\ remoteDb = [t \in Tables |-> EmptyTable]
  /\ outbox = << [id |-> 1, table |-> "actions", op |-> "upsert",
                  payload |-> [id |-> "a1", updatedAt |-> 1]],
                 [id |-> 2, table |-> "events", op |-> "upsert",
                  payload |-> [id |-> "e1", updatedAt |-> 2]],
                 [id |-> 3, table |-> "actions", op |-> "delete",
                  payload |-> [id |-> "a1"]] >>
  /\ nextId = 4
  /\ clock = 3
  /\ task = [s \in Slots |-> IdleTask]
  /\ reloads = 0
  /\ sent = {}
  /\ applied = [k \in 1..3 |-> 0]
  /\ lastApplied = 0
  /\ callFailed = FALSE
  /\ tz = 0
  /\ RemIdle
  /\ lastEnq = [e \in EntIds |->
                  IF e = "a1" THEN [op |-> "delete", payload |-> [id |-> "a1"]]
                  ELSE [op |-> "upsert", payload |-> [id |-> "e1", updatedAt |-> 2]]]
  /\ DispIdle

\* sync runs, reloads and connectivity changes; no further local operation
SyncNext ==
  \/ \E s \in Slots : safeSync(s)
  \/ \E s \in Slots : Snapshot(s)
  \/ \E s \in Slots : PushSend(s)
  \/ \E s \in Slots : PushDelete(s)
  \/ \E s \in Slots : PullSelect(s)
  \/ \E s \in Slots : PullPut(s)
  \/ \E s \in Slots : SyncDone(s)
  \/ Reload
  \/ GoOffline
  \/ GoOnline

ScenarioSpec == ScenarioInit /\ [][SyncNext]_vars

\* well-formed local entities (types.ts), one id per table, the nullable fields
\* null or set, the lists empty or not
WellFormedRows ==
  [id : {"c1"}, title : {"t"}, owner : {"o"}, ownerUserId : {Null, "u1"},
   color : {"#f00"}, colorName : {Null, "red"}, createdAt : {1}, updatedAt : {1}]
  \cup
  [id : {"i1"}, categoryId : {"c1"}, title : {"t"}, note : {"", "n"},
   mentionUserIds : {EmptyArr, "[u1]"}, createdAt : {1}, updatedAt : {1}]
  \cup
  [id : {"a1"}, itemId : {"i1"}, title : {"t"}, percentComplete : {Num(0), Num(100)},
   dueDate : {Null, "d"}, reminders : {EmptyArr, "[r1]"},
   mentionUserIds : {EmptyArr, "[u1]"}, createdAt : {1}, updatedAt : {1}]
  \cup
  [id : {"p1"}, email : {Null, "m"}, displayName : {"n"}, createdAt : {1},
   updatedAt : {1}]
  \cup
  [id : {"e1"}, categoryId : {Null, "c1"}, title : {"t"}, startsAt : {"s"},
   endsAt : {"e"}, recurrenceRule : {Null, "FREQ=DAILY"},
   exceptionDates : {EmptyArr, "[d]"}, reminders : {EmptyArr},
   mentionUserIds : {EmptyArr, "[u1]"}, color : {"#f00"}, colorName : {Null, "red"},
   attachmentName : {Null}, attachmentDataUrl : {Null, "data:"}, createdAt : {1},
   updatedAt : {1}]

RowIds == {"c1", "i1", "a1", "p1", "e1"}

\* one entity written and enqueued by a local operation, nothing else going on,
\* a remote store that answers every call
RoundTripInit ==
  \E x \in WellFormedRows :
    /\ enabled = TRUE
    /\ online = TRUE
    /\ flaky = FALSE
    /\ rejecting = {}
    /\ localDb = [t \in Tables |-> IF t = TableOf(x.id) THEN Put(EmptyTable, x)
                                                        ELSE EmptyTable]
    /\ remoteDb = [t \in Tables |-> EmptyTable]
    /\ outbox = << [id |-> 1, table |-> TableOf(x.id), op |-> "upsert", payload |-> x] >>
    /\ nextId = 2
    /\ clock = 1
    /\ task = [s \in Slots |-> IdleTask]
    /\ reloads = 0
    /\ sent = {}
    /\ applied = [k \in 1..1 |-> 0]
    /\ lastApplied = 0
    /\ callFailed = FALSE
    /\ lastEnq = [e \in RowIds |-> IF e = x.id THEN [op |-> "upsert", payload |-> x]
                                               ELSE NoMutation]
    /\ tz = 0
    /\ RemIdle
    /\ DispIdle

RoundTripSpec == RoundTripInit /\ [][SyncNext]_vars

\* the local store holds older copies of the rows another device has written
\* to the remote store, of any of the tables; nothing is queued
PullInit ==
  \E have \in SUBSET RowIds :
    /\ remoteDb = [t \in Tables |->
                     BulkPut(EmptyTable, {toRemote(t, [id |-> e, updatedAt |-> 1]) :
                               e \in {x \in have : TableOf(x) = t}})]
    /\ localDb = [t \in Tables |->
                    BulkPut(EmptyTable, {[id |-> e, updatedAt |-> 0] :
                              e \in {x \in have : TableOf(x) = t}})]
    /\ enabled = TRUE
    /\ online = TRUE
    /\ flaky = TRUE
    /\ rejecting = {}
    /\ outbox = <<>>
    /\ nextId = 1
    /\ clock = 1
    /\ task = [s \in Slots |-> IdleTask]
    /\ reloads = 0
    /\ sent = {}
    /\ applied = [k \in MutIds |-> 0]
    /\ lastApplied = 0
    /\ callFailed = FALSE
    /\ lastEnq = [e \in RowIds |-> NoMutation]
    /\ tz = 0
    /\ RemIdle
    /\ DispIdle

\* sync runs that find nothing to push and pull, some of their fetches failing
PullNext ==
  \/ \E s \in Slots : safeSync(s)
  \/ \E s \in Slots : Snapshot(s)
  \/ \E s \in Slots : PullSelect(s)
  \/ \E s \in Slots : PullPut(s)
  \/ \E s \in Slots : SyncDone(s)

PullSpec == PullInit /\ [][PullNext]_vars

\* the client with the action table's operations on one action
ProgressNext ==
  \/ \E s \in Slots : AddAction(s)
  \/ \E s \in Slots, p \in ProgressInputs : UpdateActionProgress(s, p)
  \/ \E s \in Slots : enqueueMutation(s)
  \/ SyncNext

ProgressSpec == Init /\ [][ProgressNext]_vars

\* the rows of a table in toArray() order (by primary key), out of the ids in ids
IdOrder == <<"a1", "a2", "a3", "c1", "c2", "e1", "e2", "i1", "i2", "i3">>

ToArray(tbl, ids) ==
  LET keys == SelectSeq(IdOrder, LAMBDA k : k \in ids /\ k \in DOMAIN tbl)
  IN  [n \in 1..Len(keys) |-> tbl[keys[n]]]

SeqIds(rows) == {rows[n].id : n \in 1..Len(rows)}

\* deletePriority: db.items.where('categoryId').equals(categoryId).toArray()
LinkedItems(db, categoryId) ==
  ToArray(db["items"], {i \in DOMAIN db["items"] : db["items"][i].categoryId = categoryId})

\* mutant: the actions under the items are not looked for
LinkedActionsNone(db, itemIds) == <<>>

\* deletePriority: db.actions.where('itemId').anyOf(linkedItemIds).toArray()
LinkedActions(db, itemIds) ==
  ToArray(db["actions"], {a \in DOMAIN db["actions"] : db["actions"][a].itemId \in itemIds})

\* deletePriority: db.events.where('categoryId').equals(categoryId).toArray()
LinkedEvents(db, categoryId) ==
  ToArray(db["events"], {e \in DOMAIN db["events"] : db["events"][e].categoryId = categoryId})

\* the awaited calls of one bulkDelete followed by one enqueueMutation per row
DeleteAll(table, rows) ==
  IF rows = <<>> THEN <<>>
  ELSE << [call |-> "bulkDelete", table |-> table, ids |-> SeqIds(rows)] >>
       \o [n \in 1..Len(rows) |->
             [call |-> "enqueue", table |-> table, op |-> "delete",
              payload |-> [id |-> rows[n].id]]]

\* the awaited calls of put and enqueueMutation for every event, its category
\* reference cleared
ClearAll(rows, timestamp) ==
  [n \in 1..(2 * Len(rows)) |->
     LET event == rows[(n + 1) \div 2]
         updated == [event EXCEPT !.categoryId = Null, !.updatedAt = timestamp] IN
       IF n % 2 = 1 THEN [call |-> "put", table |-> "events", row |-> updated]
                    ELSE [call |-> "enqueue", table |-> "events", op |-> "upsert",
                          payload |-> updated]]

\* mutant: the category is deleted and queued first, its items before their
\* actions
CascadeCallsParentFirst(db, categoryId, timestamp) ==
  LET linkedItems == LinkedItems(db, categoryId)
      linkedActions == LinkedActions(db, SeqIds(linkedItems))
      linkedEvents == LinkedEvents(db, categoryId) IN
    << [call |-> "bulkDelete", table |-> "categories", ids |-> {categoryId}],
       [call |-> "enqueue", table |-> "categories", op |-> "delete",
        payload |-> [id |-> categoryId]] >>
    \o DeleteAll("items", linkedItems)
    \o DeleteAll("actions", linkedActions)
    \o ClearAll(linkedEvents, timestamp)

\* deletePriority after its reads: the awaited calls in program order
CascadeCalls(db, categoryId, timestamp) ==
  LET linkedItems == LinkedItems(db, categoryId)
      linkedActions == LinkedActions(db, SeqIds(linkedItems))
      linkedEvents == LinkedEvents(db, categoryId) IN
    DeleteAll("actions", linkedActions)
    \o DeleteAll("items", linkedItems)
    \o ClearAll(linkedEvents, timestamp)
    \o << [call |-> "bulkDelete", table |-> "categories", ids |-> {categoryId}],
          [call |-> "enqueue", table |-> "categories", op |-> "delete",
           payload |-> [id |-> categoryId]] >>

\* deletePriority: returns when the category does not exist, else reads the
\* linked items, actions and events
deletePriority(s, categoryId) ==
  /\ \A o \in Slots : task[o].pc \in {"idle", "snapshot"}
  /\ task[s].pc = "idle"
  /\ categoryId \in DOMAIN localDb["categories"]
  /\ clock' = clock + 1
  /\ task' = [task EXCEPT ![s] =
                [IdleTask EXCEPT !.pc = "cascade",
                                 !.todo = CascadeCalls(localDb, categoryId, clock + 1)]]
  /\ UNCHANGED <<envVars, localDb, remoteDb, outbox, nextId, reloads, histVars, lastEnq,
                 dispVars>>

RECURSIVE BulkDelete(_, _)
\* Table.bulkDelete(ids)
BulkDelete(tbl, ids) ==
  IF ids = {} THEN tbl
  ELSE LET i == CHOOSE x \in ids : TRUE IN BulkDelete(Del(tbl, i), ids \ {i})

\* deletePriority: the next awaited call; after the last one refresh() and
\* void safeSync()
CascadeStep(s) ==
  /\ task[s].pc = "cascade"
  /\ LET c == Head(task[s].todo)
         rest == Tail(task[s].todo) IN
       /\ localDb' = CASE c.call = "bulkDelete" ->
                            [localDb EXCEPT ![c.table] = BulkDelete(@, c.ids)]
                        [] c.call = "put" ->
                            [localDb EXCEPT ![c.table] = Put(@, c.row)]
                        [] OTHER -> localDb
       /\ IF c.call = "enqueue"
            THEN /\ outbox' = Append(outbox, [id |-> nextId, table |-> c.table,
                                              op |-> c.op, payload |-> c.payload])
                 /\ nextId' = nextId + 1
                 /\ lastEnq' = [lastEnq EXCEPT ![c.payload.id] =
                                  [op |-> c.op, payload |-> c.payload]]
            ELSE UNCHANGED <<outbox, nextId, lastEnq>>
       /\ task' = [task EXCEPT ![s] =
                     IF rest = <<>> THEN TriggeredBy(SafeSyncStart, nextId)
                                    ELSE [@ EXCEPT !.todo = rest]]
  /\ UNCHANGED <<envVars, remoteDb, clock, reloads, histVars, dispVars>>

\* ids of the cascade model: two categories, the items of each, an action under
\* each item, two events
CascadeIds == {"c1", "c2", "i1", "i2", "i3", "a1", "a2", "a3", "e1", "e2"}

ItemCategory(i) == IF i = "i3" THEN "c2" ELSE "c1"

ActionItem(a) == CASE a = "a1" -> "i1" [] a = "a2" -> "i2" [] OTHER -> "i3"

AsTable(rows) == [i \in {r.id : r \in rows} |-> CHOOSE r \in rows : r.id = i]

\* a synced store: two categories, some of their items, actions under items
\* that exist, two events with or without a category; the remote store holds
\* the same rows
CascadeInit ==
  \E items \in SUBSET {"i1", "i2", "i3"}, evCat \in [{"e1", "e2"} -> {Null, "c1", "c2"}] :
    \E actions \in SUBSET {a \in {"a1", "a2", "a3"} : ActionItem(a) \in items} :
      /\ localDb =
           [t \in Tables |->
              CASE t = "categories" ->
                     AsTable({[id |-> c, updatedAt |-> 0] : c \in {"c1", "c2"}})
                [] t = "items" ->
                     AsTable({[id |-> i, categoryId |-> ItemCategory(i), updatedAt |-> 0] :
                                i \in items})
                [] t = "actions" ->
                     AsTable({[id |-> a, itemId |-> ActionItem(a), updatedAt |-> 0] :
                                a \in actions})
                [] t = "events" ->
                     AsTable({[id |-> e, categoryId |-> evCat[e], updatedAt |-> 0] :
                                e \in {"e1", "e2"}})
                [] OTHER -> EmptyTable]
      /\ remoteDb = [t \in Tables |->
                       AsTable({toRemote(t, localDb[t][i]) : i \in DOMAIN localDb[t]})]
      /\ enabled \in BOOLEAN
      /\ online = FALSE
      /\ flaky = FALSE
      /\ rejecting = {}
      /\ outbox = <<>>
      /\ nextId = 1
      /\ clock = 0
      /\ task = [s \in Slots |-> IdleTask]
      /\ reloads = 0
      /\ sent = {}
      /\ applied = [k \in 1..1 |-> 0]
      /\ lastApplied = 0
      /\ callFailed = FALSE
      /\ lastEnq = [e \in CascadeIds |-> NoMutation]
      /\ tz = 0
      /\ RemIdle
      /\ DispIdle

\* the user deletes priorities, one handler at a time, no sync run in between
CascadeNext ==
  \/ \E s \in Slots, c \in {"c1", "c2"} : deletePriority(s, c)
  \/ \E s \in Slots : CascadeStep(s)

CascadeSpec == CascadeInit /\ [][CascadeNext]_vars

(***************************************************************************)
(* The calendar.  Instants are whole hours of UTC counted from               *)
(* 2024-01-01T00:00Z, calendar days are counted from 2024-01-01 (a Monday), *)
(* a local date-time is a day and an hour of that day.                      *)
(***************************************************************************)
\* bounds of the calendar model
MaxDay == 37
MaxExceptions == 2

TimeZones == {0 - 5, 0, 1}
StartDays == {0, 1}
StartHours == {0, 9, 23}
UntilDays == {9, 30}
WeekdaySets == {{"MO", "WE"}, {"SU"}, {"TU", "SA"}}

HoursPerDay == 24

jsDayToRRuleDay == <<"SU", "MO", "TU", "WE", "TH", "FR", "SA">>

\* the day of the week of calendar day d, 0 for Sunday
JsDay(d) == (d + 1) % 7

\* new Date('yyyy-MM-ddTHH:mm'): a date-time without zone is read as local time
NewDate(local) == local.day * HoursPerDay + local.hour - tz

\* the local calendar day an instant falls on: format(date, 'yyyy-MM-dd')
getDayIso(date) == (date + tz) \div HoursPerDay

\* Date.getDay(): the local day of the week
GetDay(date) == JsDay(getDayIso(date))

\* Date.getUTCDay(): the day of the week in UTC
GetUTCDay(date) == JsDay(date \div HoursPerDay)

startOfDay(d) == NewDate([day |-> d, hour |-> 0])

endOfDay(d) == NewDate([day |-> d, hour |-> HoursPerDay - 1])

\* the UTC date-time of UNTIL: the local end of the day untilDate
toRRuleUtcDateTime(untilDate) == endOfDay(untilDate)

NoDate == 0 - 1

\* recurrenceToRRule: null for no recurrence, else the rule with BYDAY (the
\* chosen days, or the local day of the week of the start) and UNTIL
recurrenceToRRule(type, startsAtLocal, untilDate, weekdays) ==
  IF type = "none" THEN [freq |-> "none", byday |-> {}, hasUntil |-> FALSE, until |-> 0]
  ELSE LET fallbackDay == jsDayToRRuleDay[GetDay(NewDate(startsAtLocal)) + 1]
           selectedDays == IF weekdays # {} THEN weekdays ELSE {fallbackDay} IN
         [freq |-> type,
          byday |-> IF type = "weekly" THEN selectedDays ELSE {},
          hasUntil |-> untilDate # NoDate,
          until |-> IF untilDate # NoDate THEN toRRuleUtcDateTime(untilDate) ELSE 0]

\* the rule library works on UTC fields: a weekly rule matches an instant whose
\* UTC day of the week is in BYDAY, a daily rule every day
Matches(rule, date) ==
  rule.freq = "weekly" => jsDayToRRuleDay[GetUTCDay(date) + 1] \in rule.byday

\* mutant: the instants are counted from the start of the window when the
\* window starts after dtstart
betweenFromWindow(rule, dtstart, after, before) ==
  LET from == IF after > dtstart THEN after ELSE dtstart
      first == from \div HoursPerDay
      last == before \div HoursPerDay
      all == [n \in 1..(IF last < first THEN 0 ELSE last - first + 1) |->
                from + (n - 1) * HoursPerDay] IN
    SelectSeq(all, LAMBDA date :
                /\ Matches(rule, date)
                /\ rule.hasUntil => date <= rule.until
                /\ after <= date /\ date <= before)

\* mutant: UNTIL is not looked at
betweenNoUntil(rule, dtstart, after, before) ==
  LET first == dtstart \div HoursPerDay
      last == before \div HoursPerDay
      all == [n \in 1..(IF last < first THEN 0 ELSE last - first + 1) |->
                dtstart + (n - 1) * HoursPerDay] IN
    SelectSeq(all, LAMBDA date :
                /\ Matches(rule, date)
                /\ after <= date /\ date <= before)

\* rrulestr(rule, {dtstart}).between(after, before, true): the instants at
\* dtstart's UTC time of day, from dtstart on, day by day, that match the rule,
\* are not after UNTIL and lie in [after, before]; ascending
between(rule, dtstart, after, before) ==
  LET first == dtstart \div HoursPerDay
      last == before \div HoursPerDay
      all == [n \in 1..(IF last < first THEN 0 ELSE last - first + 1) |->
                dtstart + (n - 1) * HoursPerDay] IN
    SelectSeq(all, LAMBDA date :
                /\ Matches(rule, date)
                /\ rule.hasUntil => date <= rule.until
                /\ after <= date /\ date <= before)

\* mutant: the exception dates are not looked at
WithoutExceptionsAll(event, dates) == dates

\* visibleCalendarEvents: .filter(occurrence => !exceptionSet.has(getDayIso(occurrence)))
WithoutExceptions(event, dates) ==
  LET exceptionSet == {event.exceptionDates[n] : n \in 1..Len(event.exceptionDates)} IN
    SelectSeq(dates, LAMBDA occurrence : getDayIso(occurrence) \notin exceptionSet)

\* visibleCalendarEvents: .map(occurrence => ({startsAt, endsAt, occurrenceDate}))
AgendaEvents(shown, durationMs) ==
  CHOOSE agenda \in {[n \in 1..Len(occurrences) |->
                        [startsAt |-> occurrences[n],
                         endsAt |-> occurrences[n] + durationMs,
                         occurrenceDate |-> getDayIso(occurrences[n])]] :
                      occurrences \in {shown}} : TRUE

\* mutant: the ends of the range are left out
InRangeExclusive(sourceStart, a, b) == sourceStart > startOfDay(a) /\ sourceStart < endOfDay(b)

\* sourceStart >= range.start && sourceStart <= range.end
InRange(sourceStart, a, b) == sourceStart >= startOfDay(a) /\ sourceStart <= endOfDay(b)

\* mutant: the difference of end and start as it is
DurationMsSigned(event) == event.endsAt - event.startsAt

\* Math.max(0, sourceEnd.getTime() - sourceStart.getTime())
DurationMs(event) == MathMax(Num(0), Num(event.endsAt - event.startsAt)).v

\* visibleCalendarEvents for one event and the view range from the start of day
\* a to the end of day b
Occurrences(event, a, b) ==
  LET sourceStart == event.startsAt
      sourceEnd == event.endsAt
      occurrenceDate == getDayIso(sourceStart) IN
    IF event.recurrenceRule.freq = "none"
      THEN IF InRange(sourceStart, a, b)
                /\ \A n \in 1..Len(event.exceptionDates) :
                     event.exceptionDates[n] # occurrenceDate
             THEN << [startsAt |-> sourceStart, endsAt |-> sourceEnd,
                      occurrenceDate |-> occurrenceDate] >>
             ELSE <<>>
      ELSE AgendaEvents(
             WithoutExceptions(event, between(event.recurrenceRule, sourceStart,
                                              startOfDay(a), endOfDay(b))),
             DurationMs(event))

\* the days of the occurrences of an event that the calendar can show
ShownDays(eventId) ==
  IF eventId \in DOMAIN localDb["events"]
    THEN LET shown == Occurrences(localDb["events"][eventId], 0, MaxDay) IN
           {shown[n].occurrenceDate : n \in 1..Len(shown)}
    ELSE {}

\* handleCreateEvent and addEvent: the form's local start, end, recurrence type,
\* until date and chosen weekdays become an event row; db.events.put(event)
handleCreateEvent(s, eventStartsAt, hours, eventRecurrence, eventRecurrenceUntil, eventRecurrenceWeekdays) ==
  /\ task[s].pc = "idle"
  /\ "e1" \notin DOMAIN localDb["events"]
  /\ lastEnq["e1"].op = "none"
  /\ clock' = clock + 1
  /\ LET startsAtIso == NewDate(eventStartsAt)
         event == [id |-> "e1", startsAt |-> startsAtIso, endsAt |-> startsAtIso + hours,
                   recurrenceRule |-> recurrenceToRRule(eventRecurrence, eventStartsAt,
                                                        eventRecurrenceUntil,
                                                        eventRecurrenceWeekdays),
                   exceptionDates |-> <<>>, updatedAt |-> clock + 1] IN
       /\ localDb' = [localDb EXCEPT !["events"] = Put(@, event)]
       /\ task' = [task EXCEPT ![s] = [IdleTask EXCEPT !.pc = "enqueue", !.op = "upsert",
                                                       !.pay = event,
                                                       !.stamp = clock + 1]]
  /\ UNCHANGED <<envVars, remoteDb, outbox, nextId, reloads, histVars, lastEnq, dispVars>>

\* Array.from(new Set([...dates, dayIso]))
AddToSet(dates, dayIso) ==
  IF \E n \in 1..Len(dates) : dates[n] = dayIso THEN dates ELSE Append(dates, dayIso)

\* mutant: an event without recurrence gets an exception date as well
deleteEventOccurrenceAsException(s, eventId, occurrenceDateIso) ==
  /\ task[s].pc = "idle"
  /\ eventId \in DOMAIN localDb["events"]
  /\ LET existing == localDb["events"][eventId]
         updated == [existing EXCEPT
                       !.exceptionDates = AddToSet(@, occurrenceDateIso),
                       !.updatedAt = clock + 1] IN
       /\ Len(existing.exceptionDates) < MaxExceptions
       /\ clock' = clock + 1
       /\ localDb' = [localDb EXCEPT !["events"] = Put(@, updated)]
       /\ task' = [task EXCEPT ![s] =
                     [IdleTask EXCEPT !.pc = "enqueue", !.op = "upsert",
                                      !.pay = updated,
                                      !.stamp = clock + 1]]
  /\ UNCHANGED <<envVars, remoteDb, outbox, nextId, reloads, histVars, lastEnq, dispVars>>

\* deleteEventOccurrence: returns when the
\* event does not exist; deleteEventSeries when it has no recurrence rule; else
\* saveEvent with the occurrence's day added to the exception dates
deleteEventOccurrence(s, eventId, occurrenceDateIso) ==
  /\ task[s].pc = "idle"
  /\ eventId \in DOMAIN localDb["events"]
  /\ LET existing == localDb["events"][eventId] IN
       /\ clock' = clock + 1
       /\ IF existing.recurrenceRule.freq = "none"
            THEN /\ localDb' = [localDb EXCEPT !["events"] = Del(@, eventId)]
                 /\ task' = [task EXCEPT ![s] =
                               [IdleTask EXCEPT !.pc = "enqueue", !.op = "delete",
                                                !.pay = [id |-> eventId],
                                                !.stamp = clock + 1]]
            ELSE LET updated == [existing EXCEPT
                                   !.exceptionDates = AddToSet(@, occurrenceDateIso),
                                   !.updatedAt = clock + 1] IN
                   /\ Len(existing.exceptionDates) < MaxExceptions
                   /\ localDb' = [localDb EXCEPT !["events"] = Put(@, updated)]
                   /\ task' = [task EXCEPT ![s] =
                                 [IdleTask EXCEPT !.pc = "enqueue", !.op = "upsert",
                                                  !.pay = updated,
                                                  !.stamp = clock + 1]]
  /\ UNCHANGED <<envVars, remoteDb, outbox, nextId, reloads, histVars, lastEnq, dispVars>>

\* handleDeleteSeriesPartial -> trimEventSeries of a recurring event, from the
\* occurrence on day occurrenceDateIso on: the rule's UNTIL becomes the end of
\* the day before, the event is saved
trimEventSeries(s, eventId, occurrenceDateIso) ==
  /\ task[s].pc = "idle"
  /\ eventId \in DOMAIN localDb["events"]
  /\ LET existing == localDb["events"][eventId] IN
       /\ existing.recurrenceRule.freq # "none"
       /\ clock' = clock + 1
       /\ LET updated == [existing EXCEPT
                            !.recurrenceRule.hasUntil = TRUE,
                            !.recurrenceRule.until = toRRuleUtcDateTime(occurrenceDateIso - 1),
                            !.updatedAt = clock + 1] IN
            /\ localDb' = [localDb EXCEPT !["events"] = Put(@, updated)]
            /\ task' = [task EXCEPT ![s] =
                          [IdleTask EXCEPT !.pc = "enqueue", !.op = "upsert",
                                           !.pay = updated,
                                           !.stamp = clock + 1]]
  /\ UNCHANGED <<envVars, remoteDb, outbox, nextId, reloads, histVars, lastEnq, dispVars>>

\* a device in some time zone, no event yet, sync switched off
CalendarInit ==
  /\ tz \in TimeZones
  /\ RemIdle
  /\ enabled = FALSE
  /\ online \in BOOLEAN
  /\ flaky = FALSE
  /\ rejecting = {}
  /\ localDb = [t \in Tables |-> EmptyTable]
  /\ remoteDb = [t \in Tables |-> EmptyTable]
  /\ outbox = <<>>
  /\ nextId = 1
  /\ clock = 0
  /\ task = [s \in Slots |-> IdleTask]
  /\ reloads = 0
  /\ sent = {}
  /\ applied = [k \in 1..1 |-> 0]
  /\ lastApplied = 0
  /\ callFailed = FALSE
  /\ lastEnq = [e \in EntIds |-> NoMutation]
  /\ DispIdle

CalendarNext ==
  \/ \E s \in Slots, day \in StartDays, hour \in StartHours, type \in {"none", "weekly"},
        until \in UntilDays, weekdays \in WeekdaySets :
       handleCreateEvent(s, [day |-> day, hour |-> hour], 1, type, until, weekdays)
  \/ \E s \in Slots, d \in ShownDays("e1") : deleteEventOccurrence(s, "e1", d)
  \/ \E s \in Slots : enqueueMutation(s)

CalendarSpec == CalendarInit /\ [][CalendarNext]_vars

MaxTrimExceptions == 1
MaxTrimOps == 3

ExceptionCount(eventId) ==
  IF eventId \in DOMAIN localDb["events"]
    THEN Len(localDb["events"][eventId].exceptionDates) ELSE 0

\* the calendar with the choice of trimming a series from a shown occurrence on
TrimNext ==
  \/ \E s \in Slots, day \in StartDays, hour \in StartHours, type \in {"none", "weekly"},
        until \in UntilDays, weekdays \in WeekdaySets :
       handleCreateEvent(s, [day |-> day, hour |-> hour], 1, type, until, weekdays)
  \/ \E s \in Slots, d \in ShownDays("e1") :
       /\ ExceptionCount("e1") < MaxTrimExceptions
       /\ clock < MaxTrimOps
       /\ deleteEventOccurrence(s, "e1", d)
  \/ \E s \in Slots, d \in ShownDays("e1") :
       clock < MaxTrimOps /\ trimEventSeries(s, "e1", d)
  \/ \E s \in Slots : enqueueMutation(s)

TrimSpec == CalendarInit /\ [][TrimNext]_vars

\* the event rows of the expansion model: the form's events with an end before,
\* at or after the start, and exception dates as left by earlier deletions or
\* by an edit of the recurrence
Durations == {0 - 2, 0, 1, 30}
ExceptionLists == {<<>>, <<0>>, <<7>>, <<1, 8>>}

\* a device in some time zone whose store holds one event, synced
ExpandInit ==
  \E day \in StartDays, hour \in StartHours, type \in {"none", "weekly"},
     until \in UntilDays, weekdays \in WeekdaySets, hours \in Durations,
     exceptionDates \in ExceptionLists :
    LET eventStartsAt == [day |-> day, hour |-> hour]
        event == [id |-> "e1", startsAt |-> NewDate(eventStartsAt),
                  endsAt |-> NewDate(eventStartsAt) + hours,
                  recurrenceRule |-> recurrenceToRRule(type, eventStartsAt, until,
                                                       weekdays),
                  exceptionDates |-> exceptionDates, updatedAt |-> 0] IN
      /\ tz \in TimeZones
      /\ RemIdle
      /\ enabled = FALSE
      /\ online \in BOOLEAN
      /\ flaky = FALSE
      /\ rejecting = {}
      /\ localDb = [t \in Tables |->
                      IF t = "events" THEN Put(EmptyTable, event) ELSE EmptyTable]
      /\ remoteDb = [t \in Tables |->
                       IF t = "events" THEN Put(EmptyTable, toRemote(t, event))
                                       ELSE EmptyTable]
      /\ outbox = <<>>
      /\ nextId = 1
      /\ clock = 0
      /\ task = [s \in Slots |-> IdleTask]
      /\ reloads = 0
      /\ sent = {}
      /\ applied = [k \in 1..1 |-> 0]
      /\ lastApplied = 0
      /\ callFailed = FALSE
      /\ lastEnq = [e \in EntIds |-> NoMutation]
      /\ DispIdle

ExpandNext ==
  \/ \E s \in Slots, d \in ShownDays("e1") : deleteEventOccurrence(s, "e1", d)
  \/ \E s \in Slots : enqueueMutation(s)

ExpandSpec == ExpandInit /\ [][ExpandNext]_vars

(***************************************************************************)
(* The progress shown for items and categories (itemProgressMap,           *)
(* categoryProgressMap of the hook).                                       *)
(***************************************************************************)
\* Math.round(num / den) for num >= 0, den > 0: halves go up
MathRound(num, den) == (2 * num + den) \div (2 * den)

\* actions.filter(...) of the hook's state, as ids
LinkedTo(itemIds) == {a \in DOMAIN localDb["actions"] : localDb["actions"][a].itemId \in itemIds}

\* linkedActions.filter((action) => action.percentComplete >= 100).length
Completed(linked) ==
  Cardinality({a \in linked : AtLeast(localDb["actions"][a].percentComplete, Num(100))})

\* Math.round((completed / linkedActions.length) * 100), 0 without actions
ShareCompleted(linked) ==
  IF linked = {} THEN 0
  ELSE MathRound(Completed(linked) * 100, Cardinality(linked))

\* itemProgressMap: item id -> progress
itemProgressMap ==
  [item \in DOMAIN localDb["items"] |->
     ShareCompleted(LinkedTo({item}))]

\* categoryProgressMap: category id -> progress, over the actions of all the
\* category's items
categoryProgressMap ==
  [category \in DOMAIN localDb["categories"] |->
     LET linkedItemIds == {i \in DOMAIN localDb["items"] :
                             localDb["items"][i].categoryId = category} IN
       ShareCompleted(IF linkedItemIds = {} THEN {}
                      ELSE LinkedTo(linkedItemIds))]

\* the item of each action and the completion values of the progress model
ProgressItem(a) == IF a = "a3" THEN "i2" ELSE "i1"

Percents == {Num(0), Num(50), Num(100)}

\* two categories, c1 with items i1 (actions a1, a2), i2 (action a3) and
\* perhaps i3 (no action), c2 without items; any of the actions may be missing
ProgressMapInit ==
  \E actions \in SUBSET {"a1", "a2", "a3"}, items \in {{"i1", "i2"}, {"i1", "i2", "i3"}},
     percent \in [{"a1", "a2", "a3"} -> Percents] :
    /\ localDb =
         [t \in Tables |->
            CASE t = "categories" ->
                   AsTable({[id |-> c, updatedAt |-> 0] : c \in {"c1", "c2"}})
              [] t = "items" ->
                   AsTable({[id |-> i, categoryId |-> "c1", updatedAt |-> 0] : i \in items})
              [] t = "actions" ->
                   AsTable({[id |-> a, itemId |-> ProgressItem(a),
                             percentComplete |-> percent[a], updatedAt |-> 0] :
                              a \in actions})
              [] OTHER -> EmptyTable]
    /\ remoteDb = [t \in Tables |-> EmptyTable]
    /\ enabled = FALSE
    /\ online = FALSE
    /\ flaky = FALSE
    /\ rejecting = {}
    /\ outbox = <<>>
    /\ nextId = 1
    /\ clock = 0
    /\ task = [s \in Slots |-> IdleTask]
    /\ reloads = 0
    /\ sent = {}
    /\ applied = [k \in MutIds |-> 0]
    /\ lastApplied = 0
    /\ callFailed = FALSE
    /\ lastEnq = [e \in CascadeIds |-> NoMutation]
    /\ tz = 0
    /\ RemIdle
    /\ DispIdle

ProgressMapNext ==
  \/ \E s \in Slots, a \in {"a1", "a2", "a3"}, p \in Percents : updateActionProgress(s, a, p)
  \/ \E s \in Slots : enqueueMutation(s)

\* a device on which the completion of actions is changed
ProgressMapSpec == ProgressMapInit /\ [][ProgressMapNext]_vars

(***************************************************************************)
(* The update and delete handlers of usePlanestData with their lookup as a *)
(* step of its own: each handler first awaits db.<table>.get(id) and        *)
(* returns when the row does not exist.                                    *)
(***************************************************************************)
Handlers ==
  {"updateActionProgress", "updateActionTitle", "updatePriorityMeta", "deleteAction",
   "deleteItem", "deletePriority", "deleteEventSeries", "deleteEventOccurrence"}

\* the table a handler looks its id up in
HandlerTable(h) ==
  CASE h \in {"updateActionProgress", "updateActionTitle", "deleteAction"} -> "actions"
    [] h = "updatePriorityMeta" \/ h = "deletePriority" -> "categories"
    [] h = "deleteItem" -> "items"
    [] OTHER -> "events"

\* the ids a handler may be called with, rows that exist or not
HandlerIds(h) ==
  CASE HandlerTable(h) = "actions" -> {"a1", "a2"}
    [] HandlerTable(h) = "categories" -> {"c1", "c2"}
    [] HandlerTable(h) = "items" -> {"i1", "i2"}
    [] OTHER -> {"e1", "e2"}

\* a handler is called: const existing = await db.<table>.get(id)
Call(s, h, id) ==
  /\ \A o \in Slots : task[o].pc \in {"idle", "snapshot"}
  /\ task[s].pc = "idle"
  /\ clock < MaxMut
  /\ task' = [task EXCEPT ![s] = [IdleTask EXCEPT !.pc = "get", !.op = h,
                                                  !.pay = [id |-> id]]]
  /\ UNCHANGED <<envVars, localDb, remoteDb, outbox, nextId, clock, reloads, histVars,
                 lastEnq, dispVars>>

\* mutant: the handler starts safeSync before it returns
ReturnedSyncing == SafeSyncStart

\* if (!existing) { return; }
Returned == IdleTask

\* the handler's task after db.<table>.put(updated)
Putting(updated, timestamp) ==
  [IdleTask EXCEPT !.pc = "enqueue", !.op = "upsert", !.pay = updated, !.stamp = timestamp]

\* the handler's task with the awaited calls it still has to make
Calling(todo) == [IdleTask EXCEPT !.pc = "cascade", !.todo = todo]

\* db.<table>.delete(id) and the enqueueMutation of the delete
DeleteOne(table, id) ==
  << [call |-> "bulkDelete", table |-> table, ids |-> {id}],
     [call |-> "enqueue", table |-> table, op |-> "delete", payload |-> [id |-> id]] >>

\* the handler after its lookup: it returns when the row does not exist, else
\* it writes the updated row, or reads the linked rows and goes on to its
\* awaited deletes
Get(s) ==
  /\ task[s].pc = "get"
  /\ LET h == task[s].op
         id == task[s].pay.id
         table == HandlerTable(h)
         timestamp == clock + 1 IN
       IF id \notin DOMAIN localDb[table]
         THEN /\ task' = [task EXCEPT ![s] = Returned]
              /\ UNCHANGED <<localDb, clock>>
         ELSE LET existing == localDb[table][id] IN
           \/ /\ h = "updateActionProgress"
              /\ \E percentComplete \in Percents :
                   LET updated == [existing EXCEPT
                                     !.percentComplete =
                                        MathMax(Num(0), MathMin(Num(100), percentComplete)),
                                     !.updatedAt = timestamp] IN
                     /\ localDb' = [localDb EXCEPT ![table] = Put(@, updated)]
                     /\ task' = [task EXCEPT ![s] = Putting(updated, timestamp)]
              /\ clock' = timestamp
           \/ /\ h \in {"updateActionTitle", "updatePriorityMeta"}
              /\ LET updated == [existing EXCEPT !.title = "new", !.updatedAt = timestamp] IN
                   /\ localDb' = [localDb EXCEPT ![table] = Put(@, updated)]
                   /\ task' = [task EXCEPT ![s] = Putting(updated, timestamp)]
              /\ clock' = timestamp
           \/ /\ h \in {"deleteAction", "deleteEventSeries"}
              /\ task' = [task EXCEPT ![s] = Calling(DeleteOne(table, id))]
              /\ clock' = timestamp
              /\ UNCHANGED localDb
           \/ /\ h = "deleteItem"
              /\ task' = [task EXCEPT ![s] =
                            Calling(DeleteAll("actions", LinkedActions(localDb, {id}))
                                    \o DeleteOne("items", id))]
              /\ clock' = timestamp
              /\ UNCHANGED localDb
           \/ /\ h = "deletePriority"
              /\ task' = [task EXCEPT ![s] = Calling(CascadeCalls(localDb, id, timestamp))]
              /\ clock' = timestamp
              /\ UNCHANGED localDb
           \/ /\ h = "deleteEventOccurrence"
              /\ IF existing.recurrenceRule.freq = "none"
                   THEN /\ task' = [task EXCEPT ![s].op = "deleteEventSeries"]
                        /\ UNCHANGED <<localDb, clock>>
                   ELSE LET updated == [existing EXCEPT
                                          !.exceptionDates = AddToSet(@, 0),
                                          !.updatedAt = timestamp] IN
                          /\ localDb' = [localDb EXCEPT ![table] = Put(@, updated)]
                          /\ task' = [task EXCEPT ![s] = Putting(updated, timestamp)]
                          /\ clock' = timestamp
  /\ UNCHANGED <<envVars, remoteDb, outbox, nextId, reloads, histVars, lastEnq, dispVars>>

\* a store of a category with an item, an action and an event, some of them
\* there and some not, a second category with nothing in it; a backend is
\* configured or not, the device is online or not
HandlerInit ==
  \E present \in SUBSET {"c1", "i1", "a1", "e1"}, freq \in {"none", "daily"} :
    /\ localDb =
         [t \in Tables |->
            CASE t = "categories" ->
                   AsTable({[id |-> c, title |-> "t", updatedAt |-> 0] :
                              c \in {"c1"} \cap present})
              [] t = "items" ->
                   AsTable({[id |-> i, categoryId |-> "c1", updatedAt |-> 0] :
                              i \in {"i1"} \cap present})
              [] t = "actions" ->
                   AsTable({[id |-> a, itemId |-> "i1", title |-> "t",
                             percentComplete |-> Num(50), updatedAt |-> 0] :
                              a \in {"a1"} \cap present})
              [] t = "events" ->
                   AsTable({[id |-> e, categoryId |-> "c1",
                             recurrenceRule |-> [freq |-> freq],
                             exceptionDates |-> <<>>, updatedAt |-> 0] :
                              e \in {"e1"} \cap present})
              [] OTHER -> EmptyTable]
    /\ remoteDb = [t \in Tables |->
                     AsTable({toRemote(t, localDb[t][i]) : i \in DOMAIN localDb[t]})]
    /\ enabled \in BOOLEAN
    /\ online \in BOOLEAN
    /\ flaky = FALSE
    /\ rejecting = {}
    /\ outbox = <<>>
    /\ nextId = 1
    /\ clock = 0
    /\ task = [s \in Slots |-> IdleTask]
    /\ reloads = 0
    /\ sent = {}
    /\ applied = [k \in 1..1 |-> 0]
    /\ lastApplied = 0
    /\ callFailed = FALSE
    /\ lastEnq = [e \in CascadeIds |-> NoMutation]
    /\ tz = 0
    /\ RemIdle
    /\ DispIdle

\* the user calls the handlers, one at a time
HandlerNext ==
  \/ \E s \in Slots, h \in Handlers : \E id \in HandlerIds(h) : Call(s, h, id)
  \/ \E s \in Slots : Get(s)
  \/ \E s \in Slots : enqueueMutation(s)
  \/ \E s \in Slots : CascadeStep(s)

HandlerSpec == HandlerInit /\ [][HandlerNext]_vars

(***************************************************************************)
(* The reminder pass of the device (checkReminders in App).                *)
(***************************************************************************)
\* window.setInterval(checkReminders, 30_000)
ReminderPeriodMs == 30 * 1000

RECURSIVE EntityWork(_, _, _)
\* for (const reminder of entity.reminders)
EntityWork(kind, id, reminders) ==
  IF reminders = <<>> THEN <<>>
  ELSE <<[kind |-> kind, id |-> id, reminder |-> Head(reminders)]>>
         \o EntityWork(kind, id, Tail(reminders))

RECURSIVE RowsWork(_, _)
\* for (const action of filteredActions), for (const event of events): the
\* reminders of the rows in loop order; a completed action is passed over
RowsWork(kind, rows) ==
  IF rows = <<>> THEN <<>>
  ELSE (IF kind = "action" /\ AtLeast(Head(rows).percentComplete, Num(100))
          THEN <<>>
          ELSE EntityWork(kind, Head(rows).id, Head(rows).reminders))
         \o RowsWork(kind, Tail(rows))

\* the reminders one pass goes through: the actions' first, then the events'
PassWork ==
  RowsWork("action", ToArray(localDb["actions"], DOMAIN localDb["actions"]))
    \o RowsWork("event", ToArray(localDb["events"], DOMAIN localDb["events"]))

\* sent.has(token)
AlreadySent(sentSet, token) == token \in sentSet

\* new Date(reminder).toISOString() throws a RangeError when the text is no date
Throws(reminder) == ~reminder.valid

RECURSIVE RunPass(_, _, _)
\* the two loops of checkReminders over the work that is left: st.sent is the
\* Set in memory, st.raised the notifications constructed, in order; the loops
\* end at the first reminder whose token cannot be built
RunPass(work, st, now) ==
  IF work = <<>> THEN st
  ELSE LET w == Head(work)
           token == Token(w.kind, w.id, w.reminder) IN
         IF Throws(w.reminder) THEN [st EXCEPT !.threw = TRUE]
         ELSE IF w.reminder.at <= now /\ ~AlreadySent(st.sent, token)
           THEN RunPass(Tail(work), [st EXCEPT !.sent = @ \cup {token},
                                               !.raised = Append(@, token)], now)
           ELSE RunPass(Tail(work), st, now)

\* the number of entries of q equal to x
Count(q, x) == Cardinality({n \in 1..Len(q) : q[n] = x})

\* checkReminders: the set under 'planest_sent_reminders' is read, the loops
\* run, and the set is written back by the last statement of the function,
\* which an exception thrown in the loops does not reach
checkReminders ==
  /\ passes < MaxPasses
  /\ \E r \in {RunPass(PassWork, [sent |-> sentReminders, raised |-> <<>>,
                                  threw |-> FALSE], deviceNow)} :
       /\ notifications' = [k \in Tokens |-> notifications[k] + Count(r.raised, k)]
       /\ sentReminders' = IF r.threw THEN sentReminders ELSE r.sent
       /\ lastPass' = IF r.threw THEN "threw" ELSE "completed"
  /\ passes' = passes + 1
  /\ UNCHANGED <<enabled, online, flaky, rejecting, localDb, remoteDb, outbox, nextId,
                 clock, task, reloads, histVars, lastEnq, tz, deviceNow, dispVars>>

\* the timer period passes on the device
DeviceTick ==
  /\ deviceNow < MaxDeviceTicks * ReminderPeriodMs
  /\ deviceNow' = deviceNow + ReminderPeriodMs
  /\ UNCHANGED <<enabled, online, flaky, rejecting, localDb, remoteDb, outbox, nextId,
                 clock, task, reloads, histVars, lastEnq, tz, sentReminders,
                 notifications, passes, lastPass, dispVars>>

\* the reminder lists of the rows: dates, a date twice, a text that is no date
ReminderLists ==
  {<<>>, <<R1>>, <<R1, R1>>, <<R2, R1>>, <<RBad, R1>>, <<R1, RBad>>, <<R1, R1, RBad>>}

\* a device whose store holds one action and one event with reminders, from
\* its own forms or pulled from the remote store
ReminderInit ==
  \E percent \in {Num(0), Num(100)}, ar \in ReminderLists, er \in ReminderLists :
    LET action == [id |-> "a1", percentComplete |-> percent, reminders |-> ar,
                   updatedAt |-> 0]
        event == [id |-> "e1", reminders |-> er, updatedAt |-> 0] IN
      /\ enabled = FALSE
      /\ online \in BOOLEAN
      /\ flaky = FALSE
      /\ rejecting = {}
      /\ localDb = [t \in Tables |->
                      IF t = "actions" THEN Put(EmptyTable, action)
                      ELSE IF t = "events" THEN Put(EmptyTable, event)
                      ELSE EmptyTable]
      /\ remoteDb = [t \in Tables |-> EmptyTable]
      /\ outbox = <<>>
      /\ nextId = 1
      /\ clock = 0
      /\ task = [s \in Slots |-> IdleTask]
      /\ reloads = 0
      /\ sent = {}
      /\ applied = [k \in MutIds |-> 0]
      /\ lastApplied = 0
      /\ callFailed = FALSE
      /\ lastEnq = [e \in EntIds |-> NoMutation]
      /\ tz = 0
      /\ RemIdle
      /\ DispIdle

ReminderNext ==
  \/ checkReminders
  \/ DeviceTick

\* one device: the timer ticks, and the pass runs on a tick, on a re-evaluation
\* of the effect or after the page is opened again
ReminderSpec == ReminderInit /\ [][ReminderNext]_vars

\* the device of ReminderInit with its action completed
ReopenInit == ReminderInit /\ AtLeast(localDb["actions"]["a1"].percentComplete, Num(100))

\* the passes of the device while the user moves the action's percentage
ReopenNext ==
  \/ \E s \in Slots, p \in Percents : updateActionProgress(s, "a1", p)
  \/ \E s \in Slots : enqueueMutation(s)
  \/ ReminderNext

ReopenSpec == ReopenInit /\ [][ReopenNext]_vars

\* every started task chain goes on (the event loop runs its continuations and
\* every remote call returns), and sync keeps being triggered
Fairness ==
  /\ \A s \in Slots :
       WF_vars(enqueueMutation(s) \/ Snapshot(s) \/ PushSend(s) \/ PushDelete(s)
                 \/ PullSelect(s) \/ PullPut(s) \/ SyncDone(s))
  /\ WF_vars(\E s \in Slots : safeSync(s))

\* the client without page reloads, and with the remote calls ceasing to fail
FairNext ==
  \/ \E s \in Slots, e \in EntIds : OpPut(s, e)
  \/ \E s \in Slots, e \in EntIds : OpDelete(s, e)
  \/ \E s \in Slots : enqueueMutation(s)
  \/ \E s \in Slots : safeSync(s)
  \/ \E s \in Slots : Snapshot(s)
  \/ \E s \in Slots : PushSend(s)
  \/ \E s \in Slots : PushDelete(s)
  \/ \E s \in Slots : PullSelect(s)
  \/ \E s \in Slots : PullPut(s)
  \/ \E s \in Slots : SyncDone(s)
  \/ GoOffline
  \/ GoOnline
  \/ Heal

FairSpec == Init /\ [][FairNext]_vars /\ Fairness

(***************************************************************************)
(* Properties.                                                             *)
(***************************************************************************)
PullPhase == {"pull", "pull_put", "refresh"}

Cur(s) == task[s].queue[task[s].idx]

Quiescent == \A s \in Slots : task[s].pc = "idle"

\* C1: over any number of concurrent or successive invocations, every
\* (event id, reminder timestamp, subscription id) triple gets at most one push
\* send attempt; only an invocation whose push_dispatch_log insert succeeded
\* sends, and the insert succeeds for one invocation only (the one that put the
\* key into the log)
C1_AtMostOnePushPerTriple ==
  \A k \in Keys :
    /\ attempts[k] <= 1
    /\ senders[k] \subseteq locks[k]
    /\ Cardinality(locks[k]) = (IF k \in dispatchLog THEN 1 ELSE 0)

\* two invocations worked on the same single triple: one inserted and sent, the
\* other one was refused by the log and skipped it
C1_Witness ==
  \E k \in Keys, i \in Invs, j \in Invs :
    /\ i # j
    /\ locks[k] = {i} /\ senders[k] = {i} /\ attempts[k] = 1
    /\ inv[j].pc = "done" /\ inv[j].skipped = 1 /\ Len(inv[j].work) = 1
    /\ DispatchKey(inv[j].work[1]) = k

\* C2: no queued write is lost: every mutation ever enqueued is still in the
\* outbox or was acknowledged without error by the remote store at least once
C2_NoQueuedWriteLost ==
  \A k \in 1..(nextId - 1) : k \in Ids(outbox) \/ k \in accepted

\* a call for the oldest entry failed and the entry is still queued, while an
\* earlier entry was acknowledged and removed
C2_Witness ==
  /\ outbox # <<>>
  /\ Head(outbox).id \in sent \ accepted
  /\ \E k \in accepted : k \notin Ids(outbox)

\* C3 (as claimed): once mutation k was applied at the remote store, no mutation
\* with a smaller id is applied afterwards, overlapping runs included
C3_NeverReplayedOutOfOrder == \A k \in accepted : k <= lastApplied

C5_UpsertAStaysQueued ==
  \A s \in Slots : task[s].failedAt = 2 =>
    /\ 1 \in Ids(outbox)
    /\ 3 \in Ids(outbox)

\* C5 (amended): that run leaves upsert B and delete A in the outbox, in this
\* order and never sent out of turn; upsert A was applied and removed before
C5_RejectedBAndDeleteAStayQueued ==
  \A s \in Slots : task[s].failedAt = 2 =>
    /\ Ids(outbox) = {2, 3}
    /\ outbox[1].id = 2 /\ outbox[2].id = 3
    /\ outbox[2].op = "delete" /\ outbox[2].payload.id = "a1"
    /\ 1 \in accepted
    /\ 3 \notin sent

\* a run was refused upsert B and has gone on to its pull phase
C5_Witness ==
  \E s \in Slots : task[s].failedAt = 2 /\ task[s].pc = "refresh" /\ "a1" \in DOMAIN remoteDb["actions"]

\* the remote row of entity e is what the last mutation enqueued for e says
RemoteMatchesLast(e) ==
  LET t == TableOf(e) IN
    /\ lastEnq[e].op = "upsert" =>
         /\ e \in DOMAIN remoteDb[t]
         /\ remoteDb[t][e] = toRemote(t, lastEnq[e].payload)
    /\ lastEnq[e].op = "delete" => e \notin DOMAIN remoteDb[t]

\* C6 (as claimed): when every remote call succeeded, all runs have finished and
\* the outbox is empty, the remote row of every entity equals the payload of the
\* last mutation enqueued for it (absent after a delete)
C6_OverlappingSyncsConverge ==
  (~callFailed /\ reloads = 0 /\ Quiescent /\ outbox = <<>>) =>
    \A e \in EntIds : RemoteMatchesLast(e)

\* C7: a run whose push met an error is in its pull phase, has selected the
\* tables before its position in tableNames order, and reaches the end of
\* syncAll only with every table selected
C7_PullRunsAfterPushError ==
  \A s \in Slots : task[s].pushErr =>
    /\ task[s].pc \in PullPhase
    /\ task[s].pc = "pull" =>
         task[s].pulled = {tableNames[i] : i \in 1..(task[s].idx - 1)}
    /\ task[s].pc = "pull_put" =>
         task[s].pulled = {tableNames[i] : i \in 1..task[s].idx}
    /\ task[s].pc = "refresh" => task[s].pulled = Tables

\* a run ended syncAll after a push error, with an entry left queued and a row
\* pulled into the local store by it
C7_Witness ==
  \E s \in Slots :
    /\ task[s].pushErr /\ task[s].pc = "refresh" /\ task[s].pulled = Tables
    /\ outbox # <<>>

\* C8: while the remote has acknowledged no call for the oldest outbox entry,
\* every entry enqueued after it is still in the outbox and was never sent
C8_HeadOfLineBlocking ==
  (outbox # <<>> /\ Head(outbox).id \notin accepted) =>
    \A k \in (Head(outbox).id + 1)..(nextId - 1) :
      /\ k \in Ids(outbox)
      /\ k \notin sent

\* the oldest entry was refused, the runs have ended, a later entry waits
C8_Witness ==
  /\ Len(outbox) = 2
  /\ Head(outbox).id \in sent \ accepted
  /\ Quiescent
  /\ outbox[1].payload.id # outbox[2].payload.id

\* C9: if from some point on the device is online with a backend configured and
\* every remote call succeeds, and sync keeps being triggered, every mutation in
\* the outbox is eventually acknowledged by the remote store and removed, and
\* the outbox ends up empty
C9_RetryLiveness ==
  (<>[](enabled /\ online /\ ~flaky)) =>
    /\ \A k \in 1..MaxMut :
         (k \in Ids(outbox)) ~> (k \notin Ids(outbox) /\ k \in accepted)
    /\ <>[](outbox = <<>>)

\* an entry that a failed call left queued was later acknowledged and removed
C9_Witness ==
  /\ ~flaky /\ callFailed
  /\ outbox = <<>>
  /\ nextId > 1
  /\ \A k \in 1..(nextId - 1) : k \in accepted

\* C10: a reload changes neither the outbox nor a store; the next drain reads
\* the whole outbox in id order, so an entry applied but not removed is sent
\* again in its place; and applying it again changes nothing at the remote
C10_ReloadLeavesRetry ==
  /\ [](\A s \in Slots : task[s].pc \in {"push", "push_del"} =>
          \A i \in 1..Len(task[s].queue), j \in 1..Len(task[s].queue) :
            i < j => task[s].queue[i].id < task[s].queue[j].id)
  /\ [][/\ reloads' # reloads =>
             /\ outbox' = outbox
             /\ localDb' = localDb
             /\ remoteDb' = remoteDb
        /\ \A s \in Slots :
             /\ (task[s].pc = "snapshot" /\ task'[s].pc = "push") =>
                  task'[s].queue = outbox
             /\ (task[s].pc = "snapshot" /\ task'[s].pc = "pull") =>
                  outbox = <<>>
             /\ (task[s].pc = "push" /\ task'[s].pc = "push_del"
                   /\ lastApplied = Cur(s).id) =>
                  remoteDb' = remoteDb]_vars

\* after a reload a run has sent again, as the oldest entry, the entry that was
\* applied before and never removed
C10_Witness ==
  \E s \in Slots :
    /\ reloads = 1
    /\ task[s].pc = "push_del"
    /\ \A o \in Slots \ {s} : task[o].pc = "idle"
    /\ Len(outbox) = 2 /\ Head(outbox).id = Cur(s).id
    /\ applied[Cur(s).id] = 2

\* C11: no step of pullSnapshot removes a local row: every id in a local table
\* before the step is in it after the step, also an id the remote table does not
\* hold (any more)
C11_PullNeverRemovesLocalRows ==
  [][\A s \in Slots :
       (task[s].pc \in {"pull", "pull_put"} /\ task'[s] # task[s] /\ reloads' = reloads) =>
         \A t \in Tables : DOMAIN localDb[t] \subseteq DOMAIN localDb'[t]]_vars

\* a run pulled every table without error while the action, deleted at the
\* remote store, is still in the local table
C11_Witness ==
  \E s \in Slots :
    /\ task[s].pc = "refresh" /\ task[s].pulled = Tables
    /\ ~callFailed /\ reloads = 0 /\ outbox = <<>>
    /\ \A o \in Slots \ {s} : task[o].pc = "idle"
    /\ lastEnq["a1"].op = "delete"
    /\ "a1" \in DOMAIN localDb["actions"]
    /\ "a1" \notin DOMAIN remoteDb["actions"]

\* C12: the bulkPut step of pullSnapshot leaves, for every fetched row, the local
\* row of that id equal to the translated remote row, whatever the local row was
\* (newer updatedAt, mutation of that id still in the outbox)
C12_RemoteRowWinsOnPull ==
  [][\A s \in Slots :
       (task[s].pc = "pull_put" /\ task'[s] # task[s] /\ reloads' = reloads) =>
         LET t == tableNames[task[s].idx] IN
           \A r \in task[s].data :
             /\ r.id \in DOMAIN localDb'[t]
             /\ localDb'[t][r.id] = toLocal(t, r)]_vars

\* a pull stored the older remote row over the local row whose newer version is
\* still waiting in the outbox
C12_Witness ==
  \E i \in 1..Len(outbox) :
    LET m == outbox[i] IN
      /\ m.op = "upsert"
      /\ m.id \notin sent
      /\ m.payload.id \in DOMAIN localDb[m.table]
      /\ localDb[m.table][m.payload.id].updatedAt < m.payload.updatedAt

\* C13: without a configured backend no task ever leaves the handlers and no
\* remote call is issued; while the device is offline or no backend is
\* configured, a handler's step starts no sync run, issues no remote call and
\* changes the remote store not at all, the table write leaves the outbox as it
\* is and the enqueue step appends one entry and leaves the local tables
C13_SyncNoOpWithoutBackendOrNetwork ==
  /\ [](~enabled => /\ sent = {}
                    /\ remoteDb = [t \in Tables |-> EmptyTable]
                    /\ \A s \in Slots : task[s].pc \in {"idle", "enqueue"})
  /\ [][\A s \in Slots :
          (/\ ~(enabled /\ online)
           /\ task[s].pc \in {"idle", "enqueue"}
           /\ task'[s] # task[s]
           /\ reloads' = reloads) =>
             /\ task'[s].pc \in {"idle", "enqueue"}
             /\ sent' = sent
             /\ remoteDb' = remoteDb
             /\ task[s].pc = "idle" => (outbox' = outbox /\ localDb' # localDb)
             /\ task[s].pc = "enqueue" =>
                  /\ task'[s] = IdleTask
                  /\ Len(outbox') = Len(outbox) + 1
                  /\ outbox'[Len(outbox')].payload = task[s].pay
                  /\ localDb' = localDb]_vars

\* without a backend two operations wrote locally and enqueued, and nothing else
\* happened
C13_Witness ==
  /\ ~enabled
  /\ Len(outbox) = 2
  /\ Quiescent
  /\ sent = {}
  /\ \E e \in EntIds : e \in DOMAIN localDb[TableOf(e)]

C16_DeletedEventStaysAbsent ==
  (/\ lastEnq["e1"].op = "delete"
   /\ reloads = 0
   /\ \A s \in Slots : task[s].pc = "enqueue" => task[s].pay.id # "e1") =>
     "e1" \notin DOMAIN localDb["events"]

OwnerBefore(t, id) ==
  IF t = "items" THEN remoteDb["items"][id].category_id
  ELSE remoteDb["items"][remoteDb["actions"][id].item_id].category_id

QueuedFor(t, op, payload) ==
  \E n \in 1..Len(outbox) :
    outbox[n].table = t /\ outbox[n].op = op /\ outbox[n].payload = payload

\* C18: once deletePriority(c) has finished (and no other handler is half way), the local store holds no category
\* c, no item of c and no action under an item of c; every event is still there,
\* those that referenced c with categoryId null and the others as they were;
\* everything else is as it was; a delete mutation is queued for every removed
\* row and an upsert mutation with the new row for every event changed
C18_DeletePriorityCascades ==
  \A c \in {"c1", "c2"} :
    (lastEnq[c].op = "delete" /\ \A s \in Slots : task[s].pc # "cascade") =>
      /\ c \notin DOMAIN localDb["categories"]
      /\ \A t \in {"items", "actions"} :
           \A id \in DOMAIN remoteDb[t] :
             /\ OwnerBefore(t, id) = c => id \notin DOMAIN localDb[t]
             /\ id \notin DOMAIN localDb[t] =>
                  (OwnerBefore(t, id) \notin DOMAIN localDb["categories"]
                     /\ QueuedFor(t, "delete", [id |-> id]))
             /\ id \in DOMAIN localDb[t] => localDb[t][id] = toLocal(t, remoteDb[t][id])
      /\ \A t \in {"items", "actions"} : DOMAIN localDb[t] \subseteq DOMAIN remoteDb[t]
      /\ QueuedFor("categories", "delete", [id |-> c])
      /\ DOMAIN localDb["events"] = DOMAIN remoteDb["events"]
      /\ \A e \in DOMAIN remoteDb["events"] :
           LET before == toLocal("events", remoteDb["events"][e])
               now == localDb["events"][e] IN
             /\ before.categoryId = c =>
                  (now.categoryId = Null /\ QueuedFor("events", "upsert", now))
             /\ before.categoryId \in DOMAIN localDb["categories"] \cup {Null} =>
                  now = before

\* deletePriority(c1) has finished: two items and their two actions are gone, an
\* event that referenced c1 has no category now, the item, the action and the
\* event of c2 are untouched
C18_Witness ==
  /\ lastEnq["c1"].op = "delete"
  /\ lastEnq["c2"].op = "none"
  /\ DOMAIN remoteDb["items"] = {"i1", "i2", "i3"}
  /\ DOMAIN remoteDb["actions"] = {"a1", "a2", "a3"}
  /\ DOMAIN localDb["items"] = {"i3"}
  /\ DOMAIN localDb["actions"] = {"a3"}
  /\ remoteDb["events"]["e1"].category_id = "c1"
  /\ localDb["events"]["e1"].categoryId = Null
  /\ localDb["events"]["e2"].categoryId = "c2"
  /\ Len(outbox) = 6

RECURSIVE DaysFrom(_, _, _)
\* the days from a to b, ascending, whose weekday is in W
DaysFrom(a, b, W) ==
  IF a > b THEN <<>>
  ELSE (IF jsDayToRRuleDay[JsDay(a) + 1] \in W THEN <<a>> ELSE <<>>) \o DaysFrom(a + 1, b, W)

Max(x, y) == IF x >= y THEN x ELSE y

Min(x, y) == IF x <= y THEN x ELSE y

WindowDays == {0, 1, 7, 8, 30}

WeeklyEvents ==
  {e \in DOMAIN localDb["events"] :
     /\ "recurrenceRule" \in DOMAIN localDb["events"][e]
     /\ localDb["events"][e].recurrenceRule.freq = "weekly"}

\* C19 (as claimed): a weekly event that starts on local day S with weekdays W
\* and until date U shows, in the window from day a to day b, exactly the days
\* from max(S, a) to min(U, b) whose weekday is in W, ascending
C19_WeeklyExpansionDays ==
  \A e \in WeeklyEvents :
    LET event == localDb["events"][e]
        S == getDayIso(event.startsAt)
        U == getDayIso(event.recurrenceRule.until)
        W == event.recurrenceRule.byday IN
      event.exceptionDates = <<>> =>
        \A a \in WindowDays, b \in WindowDays :
          a <= b =>
            LET shown == Occurrences(event, a, b) IN
              [n \in 1..Len(shown) |-> shown[n].occurrenceDate]
                = DaysFrom(Max(S, a), Min(U, b), W)

\* the occurrences shown are those shown before without the one on day D, of
\* which there is at most one
OneLess(shown, shownBefore, D) ==
  \A now \in {shown}, was \in {shownBefore} :
    /\ now = SelectSeq(was, LAMBDA o : o.occurrenceDate # D)
    /\ Len(now) >= Len(was) - 1

\* C20: a step of deleteEventOccurrence on a recurring event appends the
\* occurrence's day D to the exception dates; in every window the occurrences
\* shown afterwards are those shown before without the one on day D, each with
\* the day, start and end it had, and over the whole calendar exactly one
\* occurrence has gone
C20_DeleteOccurrenceRemovesThatDay ==
  [][\A e \in DOMAIN localDb["events"] \cap DOMAIN localDb'["events"] :
       LET before == localDb["events"][e]
           after == localDb'["events"][e] IN
         after.exceptionDates # before.exceptionDates =>
           LET D == after.exceptionDates[Len(after.exceptionDates)] IN
             /\ after.exceptionDates = Append(before.exceptionDates, D)
             /\ \A a \in WindowDays, b \in WindowDays :
                  a <= b =>
                    OneLess(Occurrences(after, a, b), Occurrences(before, a, b), D)
             /\ Len(Occurrences(after, 0, MaxDay)) = Len(Occurrences(before, 0, MaxDay)) - 1
    ]_vars

\* the event of every Monday and Wednesday of January 2024, on a device one hour
\* ahead of UTC, after its occurrence of 2024-01-08 was deleted: nine
\* occurrences are left in January
C20_Witness ==
  /\ tz = 1
  /\ "e1" \in WeeklyEvents
  /\ LET event == localDb["events"]["e1"] IN
       /\ event.startsAt = NewDate([day |-> 0, hour |-> 9])
       /\ event.recurrenceRule.byday = {"MO", "WE"}
       /\ event.recurrenceRule.until = toRRuleUtcDateTime(30)
       /\ event.exceptionDates = << 7 >>
       /\ Len(Occurrences(event, 0, 30)) = 9
       /\ lastEnq["e1"].payload = event

Range(seq) == {seq[n] : n \in 1..Len(seq)}

\* the occurrences of a set, one per calendar day
OnePerDay(occs) == Cardinality({o.occurrenceDate : o \in occs}) = Cardinality(occs)

\* the expansions over [a1, b1] and over [a2, b2] together are the expansion
\* over the union window
UnionOfWindows(event, a1, b1, a2, b2) ==
  \A both \in {Range(Occurrences(event, a1, b1)) \cup Range(Occurrences(event, a2, b2))} :
    /\ OnePerDay(both)
    /\ both = Range(Occurrences(event, Min(a1, a2), Max(b1, b2)))

OverlapDays == {0, 8, 30}

\* C21: for every event and every two overlapping windows (the one that starts
\* first named first), the occurrences of
\* the two windows, one per calendar day, are the occurrences of the union window
C21_ExpansionWindowConsistent ==
  \A e \in DOMAIN localDb["events"] :
    "recurrenceRule" \in DOMAIN localDb["events"][e] =>
      \A a1 \in OverlapDays, b1 \in OverlapDays, a2 \in OverlapDays, b2 \in OverlapDays :
        (a1 <= b1 /\ a2 <= b2 /\ a2 <= b1 /\ a1 <= a2) =>
          UnionOfWindows(localDb["events"][e], a1, b1, a2, b2)

\* a weekly event seen through January's first nine days and through day 8 to
\* day 31: both windows show occurrences the other does not, and share one
C21_Witness ==
  /\ "e1" \in WeeklyEvents
  /\ LET event == localDb["events"]["e1"]
         w1 == Range(Occurrences(event, 0, 8))
         w2 == Range(Occurrences(event, 7, 30)) IN
       /\ w1 \ w2 # {}
       /\ w2 \ w1 # {}
       /\ w1 \cap w2 # {}
       /\ event.exceptionDates # <<>>

\* the occurrences shown are those shown before that start before day D
CutAt(shown, shownBefore, D) ==
  \A now \in {Range(shown)}, was \in {Range(shownBefore)} :
    /\ \A o \in now : o.startsAt < startOfDay(D)
    /\ \A o \in was : o.startsAt < startOfDay(D) => o \in now
    /\ now \subseteq was

\* C22: a step of trimEventSeries from the occurrence on day D sets the end
\* bound to the day before D and leaves the exception dates alone; in every
\* window no occurrence shown afterwards starts on or after D, and every
\* occurrence shown before that starts before D is still shown
C22_TrimCapsSeriesBeforeDay ==
  [][\A e \in DOMAIN localDb["events"] \cap DOMAIN localDb'["events"] :
       LET before == localDb["events"][e]
           after == localDb'["events"][e] IN
         after.recurrenceRule # before.recurrenceRule =>
           LET D == getDayIso(after.recurrenceRule.until) + 1 IN
             /\ D \in ShownDays(e)
             /\ after.exceptionDates = before.exceptionDates
             /\ \A a \in WindowDays, b \in WindowDays :
                  a <= b => CutAt(Occurrences(after, a, b), Occurrences(before, a, b), D)
    ]_vars

\* the event of every Monday and Wednesday of January 2024 with the occurrence
\* of 2024-01-08 deleted, trimmed from 2024-01-15 on: days 01, 03 and 10 are left
C22_Witness ==
  /\ tz = 1
  /\ "e1" \in WeeklyEvents
  /\ LET event == localDb["events"]["e1"] IN
       /\ event.startsAt = NewDate([day |-> 0, hour |-> 9])
       /\ event.recurrenceRule.byday = {"MO", "WE"}
       /\ event.recurrenceRule.until = toRRuleUtcDateTime(13)
       /\ event.exceptionDates = << 7 >>
       /\ Len(Occurrences(event, 0, MaxDay)) = 3
       /\ lastEnq["e1"].payload = event

\* C23: an event without recurrence shows, in the window from day a to day b,
\* exactly one occurrence (its own start, end and day) when its start lies from
\* the start of day a to the end of day b and its day is no exception date, and
\* none otherwise
C23_SingleOccurrenceIffInWindow ==
  \A e \in DOMAIN localDb["events"] :
    LET event == localDb["events"][e]
        day == (event.startsAt + tz) \div HoursPerDay
        excepted == day \in Range(event.exceptionDates) IN
      event.recurrenceRule.freq = "none" =>
        \A a \in WindowDays, b \in WindowDays :
          a <= b =>
            LET inside == /\ NewDate([day |-> a, hour |-> 0]) <= event.startsAt
                          /\ event.startsAt <= NewDate([day |-> b, hour |-> 23]) IN
              Occurrences(event, a, b)
                = IF inside /\ ~excepted
                    THEN << [startsAt |-> event.startsAt, endsAt |-> event.endsAt,
                             occurrenceDate |-> day] >>
                    ELSE <<>>

\* an event without recurrence that starts at the first hour of 2024-01-02,
\* local time: shown in the window that starts that day, not shown in the
\* window that ends the day before
C23_Witness ==
  /\ "e1" \in DOMAIN localDb["events"]
  /\ LET event == localDb["events"]["e1"] IN
       /\ event.recurrenceRule.freq = "none"
       /\ event.startsAt = startOfDay(1)
       /\ event.exceptionDates = <<0>>
       /\ Len(Occurrences(event, 1, 7)) = 1
       /\ Len(Occurrences(event, 0, 0)) = 0

\* C25: every occurrence shown of a recurring event ends max(0, end - start) of
\* the stored event after it starts, and its day is the local calendar day of
\* its start
C25_OccurrenceKeepsDuration ==
  \A e \in WeeklyEvents :
    LET event == localDb["events"][e]
        d == event.endsAt - event.startsAt IN
      \A a \in WindowDays, b \in WindowDays :
        a <= b =>
          \A o \in Range(Occurrences(event, a, b)) :
            /\ o.endsAt - o.startsAt = (IF d > 0 THEN d ELSE 0)
            /\ o.occurrenceDate = (o.startsAt + tz) \div HoursPerDay

\* a weekly event stored with its end two hours before its start, at a device
\* behind UTC: its occurrences are shown with equal start and end
C25_Witness ==
  /\ tz < 0
  /\ "e1" \in WeeklyEvents
  /\ LET event == localDb["events"]["e1"] IN
       /\ event.endsAt < event.startsAt
       /\ event.exceptionDates # <<>>
       /\ \E o \in Range(Occurrences(event, 0, 30)) : o.endsAt = o.startsAt

\* the queued delete mutations of an entity
DeletesQueued(id) ==
  {n \in 1..Len(outbox) : outbox[n].op = "delete" /\ outbox[n].payload.id = id}

\* C24: a step of deleteEventOccurrence on an event without recurrence removes
\* the event's row and hands one delete mutation to the outbox, and no step
\* changes such an event's row (its exception dates included); an event with
\* recurrence is never removed by it.  Once the handler has finished, the
\* outbox holds exactly one delete mutation of the removed event.
C24_DeleteOccurrenceOfSingleEvent ==
  /\ [][\A e \in DOMAIN localDb["events"] :
          LET before == localDb["events"][e] IN
            IF before.recurrenceRule.freq = "none"
              THEN /\ clock' # clock => e \notin DOMAIN localDb'["events"]
                   /\ e \in DOMAIN localDb'["events"] => localDb'["events"][e] = before
                   /\ e \notin DOMAIN localDb'["events"] =>
                        \E s \in Slots :
                          /\ task'[s].pc = "enqueue"
                          /\ task'[s].op = "delete"
                          /\ task'[s].pay = [id |-> e]
              ELSE e \in DOMAIN localDb'["events"]
      ]_vars
  /\ [](("e1" \notin DOMAIN localDb["events"] /\ \A s \in Slots : task[s].pc = "idle")
          => (Cardinality(DeletesQueued("e1")) = 1 /\ Len(outbox) = 1))

\* the occurrence of an event without recurrence that carried exception dates
\* was deleted: the row is gone and the outbox holds its delete mutation
C24_Witness ==
  /\ "e1" \notin DOMAIN localDb["events"]
  /\ remoteDb["events"]["e1"].recurrence_rule.freq = "none"
  /\ remoteDb["events"]["e1"].exception_dates = <<1, 8>>
  /\ outbox = << [id |-> 1, table |-> "events", op |-> "delete", payload |-> [id |-> "e1"]] >>
  /\ \A s \in Slots : task[s].pc = "idle"

(***************************************************************************)
(* C26: on one device, over any sequence of reminder passes, a local       *)
(* notification for a given (entity kind, entity id, reminder timestamp)   *)
(* token is raised at most once, and the persisted set of fired tokens     *)
(* only grows: a token once stored is never removed.                       *)
(***************************************************************************)
C26_NotifiedAtMostOnce ==
  /\ [](\A k \in Tokens : notifications[k] <= 1)
  /\ [][sentReminders \subseteq sentReminders']_vars

(***************************************************************************)
(* C27: an unparsable reminder timestamp is skipped without aborting the   *)
(* pass.  On the device, every pass completes normally, storing the token  *)
(* set with the token of every reminder that is a date and due, whatever   *)
(* else its list or another entity's list holds; on the server, every      *)
(* invocation that loaded its data answers normally, having taken up every *)
(* reminder that is a date inside its window.                              *)
(***************************************************************************)
\* the invocation has read the events and the subscriptions
Loaded(i) == inv[i].pc \in {"insert", "send", "deactivate", "done"} /\ inv[i].status \in {0, 200}

\* the server took the reminder up: one triple for each subscription it goes to
TakenUp(i, ev, r) ==
  \A x \in Range(Recipients(ev, inv[i].subs)) :
    \E p \in 1..Len(inv[i].work) : inv[i].work[p] = [ev |-> ev.id, iso |-> r.iso, sub |-> x]

ServerSkipsUnparsable ==
  \A i \in Invs :
    /\ inv[i].pc = "done" => inv[i].status \in {200, 401, 500}
    /\ Loaded(i) =>
         \A n \in 1..Len(events) : \A r \in Range(events[n].reminders) :
           r.valid /\ r.at >= inv[i].now - PastMs /\ r.at <= inv[i].now + FutureMs
             => TakenUp(i, events[n], r)

ClientSkipsUnparsable ==
  passes' = passes + 1 =>
    /\ lastPass' = "completed"
    /\ \A n \in 1..Len(PassWork) :
         PassWork[n].reminder.valid /\ PassWork[n].reminder.at <= deviceNow
           => Token(PassWork[n].kind, PassWork[n].id, PassWork[n].reminder)
                \in sentReminders'

C27_UnparsableReminderSkipped ==
  /\ [][ClientSkipsUnparsable]_vars
  /\ []ServerSkipsUnparsable

(***************************************************************************)
(* C28: duplicate reminder timestamps are de-duplicated at dispatch: when  *)
(* the same timestamp appears more than once in the reminder list of an    *)
(* action or event, the device raises one notification for it, and the     *)
(* server makes one push attempt for it per subscription.                  *)
(***************************************************************************)
\* the timestamp of r appears more than once in the list
Duplicated(reminders, r) ==
  r.valid /\ Cardinality({n \in 1..Len(reminders) :
                            reminders[n].valid /\ reminders[n].at = r.at}) > 1

ClientDuplicatesOnce(kind, tbl) ==
  \A id \in DOMAIN localDb[tbl] : \A r \in Range(localDb[tbl][id].reminders) :
    Duplicated(localDb[tbl][id].reminders, r) => notifications[Token(kind, id, r)] <= 1

ServerDuplicatesOnce ==
  \A n \in 1..Len(events) : \A r \in Range(events[n].reminders) :
    Duplicated(events[n].reminders, r) =>
      \A x \in Subs : attempts[<<events[n].id, r.iso, x>>] <= 1

C28_DuplicatesDispatchedOnce ==
  /\ ClientDuplicatesOnce("action", "actions")
  /\ ClientDuplicatesOnce("event", "events")
  /\ ServerDuplicatesOnce

(***************************************************************************)
(* C29: an invocation at time now selects a reminder exactly when          *)
(* now - 90 s <= reminder time <= now + 30 s; so when two invocations are  *)
(* at most 120 s apart, every reminder timestamp from the start of the     *)
(* earlier window to the end of the later one is selected by at least one  *)
(* of them: no reminder is missed at a window boundary.                    *)
(***************************************************************************)
\* the invocation has a triple for the reminder
Selected(i, ev, r) ==
  \E p \in 1..Len(inv[i].work) : inv[i].work[p].ev = ev.id /\ inv[i].work[p].iso = r.iso

\* the invocation has read its data and found somebody to send to
Dispatching(i) == Loaded(i) /\ inv[i].subs # <<>>

C29_WindowCoversEveryReminder ==
  \A n \in 1..Len(events) : \A r \in Range(events[n].reminders) :
    /\ \A i \in Invs :
         Dispatching(i) =>
           (Selected(i, events[n], r)
              <=> r.valid /\ inv[i].now - 90 * 1000 <= r.at
                          /\ r.at <= inv[i].now + 30 * 1000)
    /\ \A i, j \in Invs :
         /\ Dispatching(i) /\ Dispatching(j)
         /\ inv[i].now <= inv[j].now /\ inv[j].now <= inv[i].now + 120 * 1000
         /\ r.valid /\ inv[i].now - 90 * 1000 <= r.at /\ r.at <= inv[j].now + 30 * 1000
         => Selected(i, events[n], r) \/ Selected(j, events[n], r)

\* invocations at 0 s and 120 s: a reminder 1 ms after the end of the first
\* window is selected by the second only
C29_Witness ==
  \E i, j \in Invs :
    /\ Dispatching(i) /\ Dispatching(j)
    /\ inv[i].now = 0 /\ inv[j].now = 120 * 1000
    /\ events[1].reminders[1].at = 30001
    /\ ~Selected(i, events[1], events[1].reminders[1])
    /\ Selected(j, events[1], events[1].reminders[1])

(***************************************************************************)
(* C30: the recipients of an event reminder are the active subscriptions   *)
(* of the mentioned users when the event's mention list is non-empty, and  *)
(* all active subscriptions otherwise; each subscription id appears at     *)
(* most once per reminder; and a subscription that was inactive when the   *)
(* invocation loaded the subscriptions never receives a push in that       *)
(* invocation.                                                             *)
(***************************************************************************)
\* the subscriptions the claim names, of those the invocation loaded
Addressed(i, ev) ==
  IF ev.mention_user_ids # <<>>
    THEN {x \in Range(inv[i].subs) : UserOf(x) \in Range(ev.mention_user_ids)}
    ELSE Range(inv[i].subs)

\* the triples the invocation holds for a reminder text and a subscription
TriplesFor(i, ev, r, x) ==
  {p \in 1..Len(inv[i].work) : inv[i].work[p] = [ev |-> ev.id, iso |-> r.iso, sub |-> x]}

\* the entries of the event's list with that text that the invocation selects
EntriesFor(i, ev, r) ==
  {n \in 1..Len(ev.reminders) : ev.reminders[n].iso = r.iso /\ InWindow(ev.reminders[n], inv[i].now)}

RecipientsAsClaimed ==
  \A i \in Invs : Loaded(i) =>
    /\ \A n \in 1..Len(events) : \A r \in Range(events[n].reminders) : \A x \in Subs :
         Cardinality(TriplesFor(i, events[n], r, x))
           = IF x \in Addressed(i, events[n])
               THEN Cardinality(EntriesFor(i, events[n], r)) ELSE 0
    /\ \A k \in Keys : i \in senders[k] => k[3] \in Range(inv[i].subs)

\* the load reads the subscriptions that are active at that moment
LoadsActiveOnly ==
  \A i \in Invs :
    inv[i].pc = "load" /\ Loaded(i)' => Range(inv'[i].subs) = {x \in Subs : subActive[x]}

C30_RecipientsOfReminder ==
  /\ []RecipientsAsClaimed
  /\ [][LoadsActiveOnly]_vars

\* u1 is mentioned (twice), both subscriptions were active at the load: the
\* invocation pushed to u1's subscription once and not to u2's
C30_Witness ==
  \E i \in Invs :
    /\ inv[i].pc = "done" /\ inv[i].status = 200
    /\ events[1].mention_user_ids = <<"u1", "u1">>
    /\ events[1].reminders = <<R1>>
    /\ Range(inv[i].subs) = Subs
    /\ i \in senders[<<"ev1", "r1", "s1">>]
    /\ i \notin senders[<<"ev1", "r1", "s2">>]
    /\ Len(inv[i].work) = 1

(***************************************************************************)
(* C31: a push send that fails with status 404 or 410 marks that           *)
(* subscription inactive; a send that succeeds or fails with another       *)
(* status leaves the subscription's flag as it is; and no other            *)
(* subscription is modified.                                               *)
(***************************************************************************)
\* the invocation's call of webpush.sendNotification returns in this step
SendReturns(i) == inv[i].pc = "send" /\ inv'[i].pc # "send"

\* the subscription of the triple the invocation is at
SubAt(i) == inv[i].work[inv[i].pos].sub

C32_FailedSendNeverRetried ==
  [][/\ \A i \in Invs :
          SendReturns(i) /\ inv'[i].statusCode # 0 =>
            /\ inv'[i].failed = inv[i].failed + 1
            /\ inv'[i].sent = inv[i].sent
            /\ DispatchKey(inv[i].work[inv[i].pos]) \in dispatchLog'
     /\ dispatchLog \subseteq dispatchLog'
     /\ \A k \in Keys :
          /\ attempts'[k] # attempts[k] => attempts[k] = 0 /\ attempts'[k] = 1
          /\ attempts[k] > 0 => k \in dispatchLog]_vars

\* the send of one invocation for a triple failed with 500; another
\* invocation that met the same triple was refused by the log and skipped it
C32_Witness ==
  \E k \in Keys, i \in Invs, j \in Invs :
    /\ i # j
    /\ senders[k] = {i} /\ attempts[k] = 1
    /\ inv[i].pc = "done" /\ inv[i].failed = 1 /\ inv[i].statusCode = 500
    /\ Len(inv[i].work) = 1 /\ DispatchKey(inv[i].work[1]) = k
    /\ inv[j].pc = "done" /\ inv[j].skipped = 1 /\ inv[j].sent = 0
    /\ Len(inv[j].work) = 1 /\ DispatchKey(inv[j].work[1]) = k
    /\ inv[j].now > inv[i].now

(***************************************************************************)
(* C33: the delivery service authenticates its caller by the shared secret *)
(* header: a request whose x-cron-secret header does not match the         *)
(* expected secret gets a 401 response and causes no dispatch-log insert,  *)
(* no push send and no subscription update; no request without the correct *)
(* secret ever causes such a side effect.                                  *)
(***************************************************************************)
\* the request of the invocation came without the correct secret
WithoutSecret(i) == inv[i].pc # "idle" /\ ~inv[i].received

RECURSIVE SumOver(_, _)
\* the sum of f over the set S
SumOver(S, f) ==
  IF S = {} THEN 0 ELSE LET x == CHOOSE x \in S : TRUE IN f[x] + SumOver(S \ {x}, f)

\* the rounded mean of f over S, 0 for the empty set
RoundedMean(S, f) == IF S = {} THEN 0 ELSE MathRound(SumOver(S, f), Cardinality(S))

\* the rounded mean of percentComplete over the item's actions
MeanOfActions(item) ==
  RoundedMean(LinkedTo({item}),
              [a \in DOMAIN localDb["actions"] |-> localDb["actions"][a].percentComplete.v])

\* the rounded mean of the items' progress over the category's items
MeanOfItems(category) ==
  RoundedMean({i \in DOMAIN localDb["items"] : localDb["items"][i].categoryId = category},
              [i \in DOMAIN localDb["items"] |-> MeanOfActions(i)])

C34_ProgressIsAverage ==
  /\ \A item \in DOMAIN localDb["items"] :
       itemProgressMap[item] = MeanOfActions(item) /\ itemProgressMap[item] \in 0..100
  /\ \A category \in DOMAIN localDb["categories"] :
       /\ categoryProgressMap[category] = MeanOfItems(category)
       /\ categoryProgressMap[category] \in 0..100

(***************************************************************************)
(* C35: quiescent convergence: for every interleaving of local mutating    *)
(* operations and overlapping syncAll runs in which every remote call      *)
(* succeeds, once no sync is in flight and the outbox is empty, every      *)
(* entity present in the remote store has a local row equal to the         *)
(* translated remote row.                                                  *)
(***************************************************************************)
C35_QuiescentConvergence ==
  (~callFailed /\ reloads = 0 /\ Quiescent /\ outbox = <<>>) =>
    \A t \in Tables : \A id \in DOMAIN remoteDb[t] :
      /\ id \in DOMAIN localDb[t]
      /\ localDb[t][id] = toLocal(t, remoteDb[t][id])

(***************************************************************************)
(* C36: in the outbox written by deletePriority the delete of the category *)
(* comes after the deletes of all its actions and items and after the      *)
(* upserts that clear categoryId on its events, and the delete of an item  *)
(* comes after the deletes of its actions; so no mutation of a child is    *)
(* queued behind the delete of its parent.                                 *)
(***************************************************************************)
\* the outbox positions holding mutation op of row id of table t
Positions(t, op, id) ==
  {n \in 1..Len(outbox) :
     outbox[n].table = t /\ outbox[n].op = op /\ outbox[n].payload.id = id}

\* the rows of table t that belonged to category c before the handlers ran
ChildrenBefore(t, c) ==
  IF t = "events"
    THEN {e \in DOMAIN remoteDb[t] : remoteDb[t][e].category_id = c}
    ELSE {id \in DOMAIN remoteDb[t] : OwnerBefore(t, id) = c}

\* every position of set early precedes position k and there is at least one
Precedes(early, k) == early # {} /\ \A j \in early : j < k

C36_ParentDeletedLast ==
  /\ \A c \in {"c1", "c2"} : \A k \in Positions("categories", "delete", c) :
       /\ \A t \in {"actions", "items"} : \A id \in ChildrenBefore(t, c) :
            Precedes(Positions(t, "delete", id), k)
       /\ \A e \in ChildrenBefore("events", c) :
            /\ Precedes(Positions("events", "upsert", e), k)
            /\ \A j \in Positions("events", "upsert", e) :
                 outbox[j].payload.categoryId = Null
  /\ \A i \in DOMAIN remoteDb["items"] : \A k \in Positions("items", "delete", i) :
       \A a \in DOMAIN remoteDb["actions"] :
         remoteDb["actions"][a].item_id = i => Precedes(Positions("actions", "delete", a), k)

\* deletePriority(c1) has queued the delete of c1 behind the deletes of two
\* actions and two items and the upsert of an event
C36_Witness ==
  /\ \E k \in Positions("categories", "delete", "c1") : k >= 6
  /\ ChildrenBefore("actions", "c1") = {"a1", "a2"}
  /\ ChildrenBefore("items", "c1") = {"i1", "i2"}
  /\ ChildrenBefore("events", "c1") # {}
  /\ \A s \in Slots : task[s].pc # "cascade"

(***************************************************************************)
(* C37: updateActionProgress, updateActionTitle, updatePriorityMeta,       *)
(* deleteAction, deleteItem, deletePriority, deleteEventSeries and         *)
(* deleteEventOccurrence called with an id that is not in the local table  *)
(* leave every local table and the outbox unchanged and start no sync: the *)
(* handler's task is over after the lookup.                                *)
(***************************************************************************)
\* the handler of slot s has looked up an id its table does not hold
LookedUpMissing(s) ==
  /\ task[s].pc = "get"
  /\ task[s].pay.id \notin DOMAIN localDb[HandlerTable(task[s].op)]

C37_MissingIdIsNoOp ==
  [][\A s \in Slots :
       (LookedUpMissing(s) /\ task'[s] # task[s]) =>
         /\ localDb' = localDb
         /\ outbox' = outbox
         /\ task' = [task EXCEPT ![s] = IdleTask]]_vars

\* deletePriority is called a second time for a category it has deleted, with a
\* backend configured and the device online
C37_Witness ==
  \E s \in Slots :
    /\ LookedUpMissing(s)
    /\ task[s].op = "deletePriority"
    /\ lastEnq[task[s].pay.id].op = "delete"
    /\ enabled /\ online

(***************************************************************************)
(* C38: pullSnapshot isolates failures per table: a fetch that returns an  *)
(* error or no data leaves the local tables as they are and the pull goes  *)
(* on with the next table; every fetch that succeeds is followed by the    *)
(* bulk upsert of its rows, and a run ends its pull only with every table  *)
(* fetched.                                                                *)
(***************************************************************************)
\* the table the pull of slot s is at
PullTable(s) == tableNames[task[s].idx]

\* this step is a fetch of slot s that returned an error instead of the rows
\* the remote table holds
FetchFailed(s) ==
  /\ task[s].pc = "pull"
  /\ task'[s] # task[s]
  /\ remoteDb[PullTable(s)] # EmptyTable
  /\ task'[s].pc # "pull_put"

\* this step is the bulkPut of the rows slot s fetched
Upserted(s) == task[s].pc = "pull_put" /\ task'[s] # task[s]

C38_PullIsolatesFailures ==
  /\ [][\A s \in Slots :
          /\ FetchFailed(s) =>
               /\ localDb' = localDb
               /\ task'[s].pulled = task[s].pulled \cup {PullTable(s)}
               /\ IF task[s].idx < Len(tableNames)
                    THEN task'[s].pc = "pull" /\ task'[s].idx = task[s].idx + 1
                    ELSE task'[s].pc = "refresh"
          /\ Upserted(s) =>
               /\ \A r \in task[s].data :
                    /\ r.id \in DOMAIN localDb'[PullTable(s)]
                    /\ localDb'[PullTable(s)][r.id] = toLocal(PullTable(s), r)
               /\ \A t \in Tables \ {PullTable(s)} : localDb'[t] = localDb[t]]_vars
  /\ [](\A s \in Slots : task[s].pc = "refresh" => task[s].pulled = Tables)

\* a single run has ended its pull: the fetch of the categories failed and the
\* local category is the old one, the fetch of the events succeeded and the
\* local event is the remote one
C38_Witness ==
  /\ task["t1"].pc = "refresh" /\ task["t2"].pc = "idle"
  /\ callFailed
  /\ "c1" \in DOMAIN remoteDb["categories"]
  /\ localDb["categories"]["c1"] # toLocal("categories", remoteDb["categories"]["c1"])
  /\ "e1" \in DOMAIN remoteDb["events"]
  /\ localDb["events"]["e1"] = toLocal("events", remoteDb["events"]["e1"])

(***************************************************************************)
(* C39: every error of the dispatch-log insert, a duplicate key or any     *)
(* other cause, makes the invocation skip the triple: skipped goes up by   *)
(* one, nothing is sent for it and the loop goes on; a push send is        *)
(* attempted only by an invocation that is past its own successful insert  *)
(* of that key.                                                            *)
(***************************************************************************)
\* the key of the triple invocation i is at
KeyAt(i) == DispatchKey(inv[i].work[inv[i].pos])

\* this step is an insert of invocation i that returned an error
InsertErred(i) ==
  /\ inv[i].pc = "insert"
  /\ inv'[i] # inv[i]
  /\ dispatchLog' = dispatchLog /\ locks' = locks

C39_InsertErrorSkips ==
  /\ [][/\ \A i \in Invs :
             InsertErred(i) =>
               /\ inv'[i].skipped = inv[i].skipped + 1
               /\ inv'[i].sent = inv[i].sent /\ inv'[i].failed = inv[i].failed
               /\ attempts' = attempts
               /\ IF inv[i].pos < Len(inv[i].work)
                    THEN inv'[i].pc = "insert" /\ inv'[i].pos = inv[i].pos + 1
                    ELSE inv'[i].pc = "done"
        /\ \A k \in Keys :
             attempts'[k] # attempts[k] =>
               \E i \in Invs : inv[i].pc = "send" /\ KeyAt(i) = k /\ i \in locks[k]]_vars
  /\ [](\A i \in Invs : inv[i].pc = "send" => i \in locks[KeyAt(i)])

\* an invocation is done: its insert for one triple failed though the key is
\* not in the log, it skipped that triple and nobody has sent it; for another
\* triple it inserted the key and sent
C39_Witness ==
  \E i \in Invs, n \in 1..2, m \in 1..2 :
    /\ inv[i].pc = "done" /\ Len(inv[i].work) = 2
    /\ inv[i].skipped = 1 /\ inv[i].sent = 1
    /\ DispatchKey(inv[i].work[n]) \notin dispatchLog
    /\ attempts[DispatchKey(inv[i].work[n])] = 0
    /\ locks[DispatchKey(inv[i].work[m])] = {i}
    /\ senders[DispatchKey(inv[i].work[m])] = {i}

(***************************************************************************)
(* C40: the reminder pass of the device raises no notification for an      *)
(* action whose percentComplete is 100 or more and adds no token for it;   *)
(* once the action is reopened below 100, a pass fires its overdue         *)
(* reminders.                                                              *)
(***************************************************************************)
\* the pass that runs in this step leaves the reminders of the completed
\* action alone: no notification, no token
CompletedLeftAlone(action) ==
  \A r \in Range(action.reminders) :
    r.valid =>
      /\ notifications'[Token("action", action.id, r)]
           = notifications[Token("action", action.id, r)]
      /\ Token("action", action.id, r) \in sentReminders'
           <=> Token("action", action.id, r) \in sentReminders

\* after the pass that runs in this step every overdue reminder of the action
\* has fired
OverdueFired(action) ==
  \A r \in Range(action.reminders) :
    (r.valid /\ r.at <= deviceNow) => notifications'[Token("action", action.id, r)] >= 1

C40_CompletedActionNotNotified ==
  [][passes' = passes + 1 =>
       \A a \in DOMAIN localDb["actions"] :
         IF AtLeast(localDb["actions"][a].percentComplete, Num(100))
           THEN CompletedLeftAlone(localDb["actions"][a])
           ELSE OverdueFired(localDb["actions"][a])]_vars

====
